---- MODULE Spec2Model ----
(***************************************************************************)
(* Client-side private payment core of cachecash: the per-owner Note       *)
(* Store with its pending-transfer ledger (noteStorage.ts), note selection *)
(* and the transfer orchestration (TransferService.ts), and the store      *)
(* update made by the transfer dialog (TransferModal.tsx).                 *)
(*                                                                         *)
(* One owner is modelled.  A stored note is [txHash, value, storedAt]; the *)
(* value field is the number encoded by the note's 64-digit hex string.    *)
(* Transaction hashes are positive integers, the empty hash "" is 0.       *)
(***************************************************************************)
EXTENDS Integers, Sequences, FiniteSets, TLC

\* ------------------------------------------------------------------ bounds
MaxNotes == 3          \* notes in the store when the behaviour starts
MaxAmount == 3         \* largest amount typed into the transfer dialog
TickStep == 300000     \* clock advance of one Tick, in ms
MaxTime == 400000      \* the clock stops advancing here
MaxSelNotes == 4       \* length of the lists given to the selection check
MaxSelValue == 6       \* largest note value in the selection check
MaxSelAmount == 13     \* largest amount in the selection check
MaxStoreNotes == 4     \* note check: notes added to the store
MaxStoreHash == 2      \* storage checks: txHashes are 1..MaxStoreHash
MaxPending == 3        \* storage check: entries written by markNotesPending
StoreTickStep == 150000 \* storage check: clock advance of one step, in ms
MaxStoreTime == 450000 \* storage check: the clock stops advancing here
MaxRecords == 2        \* poller: records the relay accepts for the owner
MaxPollTime == 2       \* poller: the clock stops at this many seconds
MaxPasses == 3         \* poller: fetchNotes calls started in a behaviour
MaxMounts == 2         \* poller: times the hook is mounted
MaxBucketNotes == 2    \* bucket check: notes in one owner's bucket
MaxBucketHash == 2     \* bucket check: txHashes are 1..MaxBucketHash
MaxListeners == 2      \* bucket check: listeners are 1..MaxListeners
MaxImportNotes == 2    \* import check: notes added to the store by the faucet
MaxImportHash == 2     \* import check: txHashes are 0..MaxImportHash, 0 is ""
MaxImportTime == 1     \* import check: storedAt is 0..MaxImportTime
MaxArchiveNotes == 2   \* import check: records in an archive
MaxField == 1          \* blob check: note fields and secret keys are 0..MaxField
MaxCallers == 3        \* prover check: concurrent callers of the prover
MaxProverCalls == 4    \* prover check: calls made in a behaviour
MaxMixNotes == 3       \* contract check: length of the available notes
MaxMixValue == 2       \* contract check: largest note value
MaxMixAmount == 3      \* contract check: largest amount
MaxContracts == 2      \* contract check: contracts are 1..MaxContracts
MaxSpendNotes == 2     \* spendable check: notes in the store
MaxSpendValue == 2     \* spendable check: value of a note that is not empty
MaxSlicers == 3        \* mutex check: sliceOrange calls that can overlap
MaxOranges == 2        \* mutex check: orange ids
MaxSliceCalls == 3     \* mutex check: sliceOrange calls in a behaviour

Procs == {"t1", "t2"}          \* two transfer dialogs (views) of the owner
NoteValues == {1, 12}          \* values of the notes in the store
EmptyHash == 0                 \* the txHash "" of a padding input

\* -------------------------------------------------------- program constants
PENDING_TRANSFER_TIMEOUT_MS == 5 * 60 * 1000
HexWidth == 64
HYLI_BLOB_LENGTH_BYTES == 128

StageOrder ==
  << "selecting_notes", "building_transaction", "initializing_prover",
     "generating_proof", "submitting_transaction", "notifying_recipient",
     "complete" >>

VARIABLES
  storedNotes,        \* localStorage "storedNotes:<owner>": newest first
  pendingTransfers,   \* localStorage "pendingTransfers:<owner>"
  now,                \* Date.now()
  nextTx,             \* next transaction hash the backend hands out
  prover,             \* proverService: "none", "loading", "ready", "failed"
  nullified,          \* ledger: txHashes of the notes spent by settled transfers
  xfer,               \* per dialog: the handleSubmit / executeTransfer frame
  selAvail,           \* selection check: availableNotes argument
  selAmount,          \* selection check: amount argument
  selResult,          \* selection check: returned NoteSelection or Null
  selDone,            \* selection check: the call has returned
  storeOp,            \* storage check: the noteStorage call of the last step
  relay,              \* relay: the encrypted records accepted for the owner
  savedLastFetch,     \* localStorage "encryptedNotes:lastFetch:<publicKey>"
  hook,               \* useEncryptedNotes: state, refs and timers of the hook
  passes,             \* useEncryptedNotes: the fetchNotes calls in progress
  cycles,             \* useEncryptedNotes: calls started, and the last one ended
  localStorage,       \* bucket check: the legacy bucket and the per-owner buckets
  listeners,          \* noteStorage.ts: the listeners map
  delivered,          \* bucket check: the listener calls made by the last step
  modal,              \* ManageNotesModal: props, state and the file being read
  blobCall,           \* blob check: the prover input and what was built of it
  proverSvc,          \* prover check: ProverService fields and its callers
  selTx,              \* contract check: the TransferRequest built, or NoTx
  slicer              \* App: the orange mutex, window.slicedOranges, sliceOrange calls

vars == << storedNotes, pendingTransfers, now, nextTx, prover,
           nullified, xfer, selAvail, selAmount, selResult, selDone,
           storeOp, relay, savedLastFetch, hook, passes, cycles,
           localStorage, listeners, delivered, modal, blobCall,
           proverSvc, selTx, slicer >>
mainVars == << storedNotes, pendingTransfers, now, nextTx,
               prover, nullified, xfer >>
selVars == << selAvail, selAmount, selResult, selDone >>
storeVars == << storeOp >>
pollVars == << relay, savedLastFetch, hook, passes, cycles >>
bucketVars == << localStorage, listeners, delivered >>
auxVars == << bucketVars, modal, blobCall, proverSvc, selTx, slicer >>

\* ----------------------------------------------------------------- helpers
Range(s) == { s[i] : i \in 1..Len(s) }

RECURSIVE SumValues(_)
SumValues(s) == IF s = << >> THEN 0 ELSE Head(s).value + SumValues(Tail(s))

Hashes(s) == { s[i].txHash : i \in 1..Len(s) }

MinOf(S) == CHOOSE m \in S : \A k \in S : m <= k

\* ------------------------------------------------- hex encoding of values
\* value.toString(16).padStart(64, "0"): the hex digits, most significant
\* first, left-padded with 0 to HexWidth digits.
RECURSIVE HexDigits(_)
HexDigits(v) == IF v < 16 THEN << v >> ELSE Append(HexDigits(v \div 16), v % 16)

toHex64(v) ==
  LET d == HexDigits(v)
  IN  IF Len(d) >= HexWidth THEN d
      ELSE [ i \in 1..HexWidth |->
               IF i <= HexWidth - Len(d) THEN 0 ELSE d[i - (HexWidth - Len(d))] ]

\* parseInt(s, radix): the number written by the longest prefix of s whose
\* digits are valid in the radix; NaN (modelled as -1, for which every
\* comparison "> 0" is false) when the first digit is not valid.  Leading
\* zeros are skipped, they add nothing to the number.
RECURSIVE DigitsValue(_, _, _, _)
DigitsValue(s, radix, first, last) ==
  IF last < first THEN 0
  ELSE DigitsValue(s, radix, first, last - 1) * radix + s[last]

parseInt(s, radix) ==
  LET invalid == { i \in 1..Len(s) : s[i] >= radix }
      n == IF invalid = {} THEN Len(s) ELSE MinOf(invalid) - 1
      nonzero == { i \in 1..n : s[i] # 0 }
  IN  IF n = 0 THEN -1
      ELSE IF nonzero = {} THEN 0
           ELSE DigitsValue(s, radix, MinOf(nonzero), n)

\* ------------------------------------------------ noteStorage.ts: pending
readPendingTransfers_Inclusive(pending, t) ==
  SelectSeq(pending, LAMBDA p : t - p.timestamp <= PENDING_TRANSFER_TIMEOUT_MS)

readPendingTransfers(pending, t) ==
  SelectSeq(pending, LAMBDA p : t - p.timestamp < PENDING_TRANSFER_TIMEOUT_MS)

markNotesPending(pending, t, noteHashes) ==
  Append(readPendingTransfers(pending, t),
         [spentNoteHashes |-> noteHashes, timestamp |-> t])

clearPendingNotes_Reset(pending, t, noteHashes) == << >>

clearPendingNotes_ExactMatch(pending, t, noteHashes) ==
  SelectSeq(readPendingTransfers(pending, t),
            LAMBDA p : Range(p.spentNoteHashes) # Range(noteHashes))

clearPendingNotes(pending, t, noteHashes) ==
  SelectSeq(readPendingTransfers(pending, t),
            LAMBDA p : Range(p.spentNoteHashes) \cap Range(noteHashes) = {})

getPendingNoteHashes(pending, t) ==
  UNION { Range(p.spentNoteHashes) : p \in Range(readPendingTransfers(pending, t)) }

\* -------------------------------------------------- noteStorage.ts: notes
addStoredNote(existing, entry) == << entry >> \o existing

setStoredNotes(existing, entries) == entries

\* replaceStoredNote: the first entry of the given txHash is overwritten in
\* place; the result is `existing` itself when there is none.
replaceStoredNote(existing, existingTxHash, entry) ==
  LET at == { i \in 1..Len(existing) : existing[i].txHash = existingTxHash }
  IN  IF at = {} THEN existing
      ELSE [existing EXCEPT ![MinOf(at)] = entry]

\* A player name is the sequence of its characters.
\* String.prototype.trim
trim(name) ==
  LET RECURSIVE trimStart(_), trimEnd(_)
      trimStart(s) ==
        IF s # << >> /\ Head(s) = " " THEN trimStart(Tail(s)) ELSE s
      trimEnd(s) ==
        IF s # << >> /\ s[Len(s)] = " "
          THEN trimEnd(SubSeq(s, 1, Len(s) - 1)) ELSE s
  IN  trimEnd(trimStart(name))

\* String.prototype.toLowerCase
toLowerCase(name) ==
  [ i \in 1..Len(name) |->
      IF name[i] = "A" THEN "a" ELSE IF name[i] = "B" THEN "b" ELSE name[i] ]

\* normalizePlayerKey; the empty name stands for `undefined`, which is what
\* resolvePlayer turns into "no owner".
normalizePlayerKey(playerName) == toLowerCase(trim(playerName))

\* The names the callers pass, and the owners they resolve to.
PlayerNames == { << " ", "A" >>, << "b" >>, << " " >> }
PlayerKeys == { normalizePlayerKey(n) : n \in PlayerNames } \ { << >> }

\* localStorage.getItem returns null for a key that was never written.
NoItem == [present |-> FALSE, notes |-> << >>]

\* writeToStorageResolved: setItem under the owner's key.
writeToStorageResolved(storage, playerKey, next) ==
  [storage EXCEPT !.buckets[playerKey] = [present |-> TRUE, notes |-> next]]

\* Variant: a per-owner bucket that holds the empty list is treated as
\* missing.
readFromStorageResolved_EmptyFallsBack(storage, playerKey) ==
  LET raw == storage.buckets[playerKey]
      migrated ==
        SelectSeq(storage.legacy,
                  LAMBDA entry : /\ "player" \in DOMAIN entry
                                 /\ normalizePlayerKey(entry.player) = playerKey)
  IN  IF raw.present /\ raw.notes # << >>
        THEN [notes |-> raw.notes, storage |-> storage]
      ELSE IF migrated = << >> THEN [notes |-> << >>, storage |-> storage]
      ELSE [notes |-> migrated,
            storage |-> writeToStorageResolved(storage, playerKey, migrated)]

\* readFromStorageResolved: the owner's bucket if it was ever written (the
\* stored text "[]" is a non-empty string), else the legacy entries tagged
\* with the owner, which are written to the owner's bucket when there are
\* any.  The result is the list and the storage after the call.
readFromStorageResolved(storage, playerKey) ==
  LET raw == storage.buckets[playerKey]
      migrated ==
        SelectSeq(storage.legacy,
                  LAMBDA entry : /\ "player" \in DOMAIN entry
                                 /\ normalizePlayerKey(entry.player) = playerKey)
  IN  IF raw.present THEN [notes |-> raw.notes, storage |-> storage]
      ELSE IF migrated = << >> THEN [notes |-> << >>, storage |-> storage]
      ELSE [notes |-> migrated,
            storage |-> writeToStorageResolved(storage, playerKey, migrated)]

\* No listener was called.
NoCalls == [ l \in 1..MaxListeners |-> << >> ]

\* Variant: the listeners of every owner are called.
notify_AllOwners(subscribed, playerKey, snapshot) ==
  [ l \in 1..MaxListeners |->
      IF \E k \in PlayerKeys : l \in subscribed[k]
        THEN << snapshot >> ELSE << >> ]

\* notify: each listener in the owner's set is called with the snapshot.
notify(subscribed, playerKey, snapshot) ==
  [ l \in 1..MaxListeners |->
      IF l \in subscribed[playerKey] THEN << snapshot >> ELSE << >> ]

\* --------------------------------------- noteArchive.ts, ManageNotesModal
\* A record of an archive carries, next to its fields, what `typeof` gives
\* for them and whether it has a `note` key.
isStoredNote(candidate) ==
  /\ candidate.typeof.txHash = "string"
  /\ candidate.hasNote
  /\ candidate.typeof.storedAt = "number"
  /\ candidate.typeof.player = "string"

\* Variant: the well-formed records of an archive are kept.
readNotesArchive_KeepsValid(file) ==
  IF file.content = "unreadable" THEN [ok |-> FALSE, player |-> << >>, notes |-> << >>]
  ELSE [ok |-> TRUE,
        player |-> IF file.content = "array" THEN << >> ELSE file.player,
        notes |-> SelectSeq(file.notes, isStoredNote)]

\* readNotesArchive: notes.json holds an array of records, or an object with
\* a player and the records; anything else, and any record that is not a
\* StoredNote, gives { ok: false }.
readNotesArchive(file) ==
  LET failed == [ok |-> FALSE, player |-> << >>, notes |-> << >>]
      allValid == \A i \in 1..Len(file.notes) : isStoredNote(file.notes[i])
  IN  IF file.content = "array"
        THEN IF allValid
               THEN [ok |-> TRUE, player |-> << >>, notes |-> file.notes]
               ELSE failed
      ELSE IF file.content = "object"
        THEN IF file.typeofPlayer # "string" THEN failed
             ELSE IF ~allValid THEN failed
             ELSE [ok |-> TRUE, player |-> file.player, notes |-> file.notes]
      ELSE failed

\* createNoteKey: the txHash, or player and storedAt when the txHash is "".
createNoteKey(note) ==
  IF note.txHash # EmptyHash
    THEN [txHash |-> note.txHash, player |-> << >>, storedAt |-> 0]
    ELSE [txHash |-> EmptyHash, player |-> note.player, storedAt |-> note.storedAt]

\* mergeNotes: the incoming notes whose key is neither in `existing` nor
\* earlier in `incoming`, followed by `existing`, sorted by storedAt,
\* largest first (Array.prototype.sort is stable).
mergeNotes(existing, incoming) ==
  LET RECURSIVE unique(_, _), sortDesc(_)
      unique(rest, seen) ==
        IF rest = << >> THEN << >>
        ELSE IF createNoteKey(Head(rest)) \in seen
               THEN unique(Tail(rest), seen)
               ELSE << Head(rest) >>
                      \o unique(Tail(rest), seen \cup {createNoteKey(Head(rest))})
      insert(sorted, n) ==
        LET before == { i \in 1..Len(sorted) : sorted[i].storedAt >= n.storedAt }
        IN  SubSeq(sorted, 1, Cardinality(before)) \o << n >>
              \o SubSeq(sorted, Cardinality(before) + 1, Len(sorted))
      sortDesc(s) ==
        IF s = << >> THEN << >>
        ELSE insert(sortDesc(SubSeq(s, 1, Len(s) - 1)), s[Len(s)])
      uniqueIncoming ==
        unique(incoming, { createNoteKey(existing[i]) : i \in 1..Len(existing) })
  IN  sortDesc(uniqueIncoming \o existing)

\* The body of processArchive after readNotesArchive has resolved: what it
\* leaves in the store and the message it sets.  `notes` is the list the
\* callback has captured.
processArchive(notes, playerName, store, file) ==
  LET result == readNotesArchive(file)
      normalizedArchivePlayer == toLowerCase(trim(result.player))
      normalizedCurrentPlayer == toLowerCase(trim(playerName))
  IN  IF ~result.ok THEN [store |-> store, error |-> "unreadable"]
      ELSE IF /\ normalizedArchivePlayer # << >>
              /\ normalizedArchivePlayer # normalizedCurrentPlayer
        THEN [store |-> store, error |-> "belongs to another player"]
      ELSE [store |-> setStoredNotes(store, mergeNotes(notes, result.notes)),
            error |-> "none"]

\* ------------------------------------------------------- ProverService
\* A note is [kind, value, address, psi], each a string of 64 hex digits.
\* bb.poseidon2Hash of the library: a stand-in that is never 0 and gives
\* different field elements for the different inputs of the check (the
\* elements are read as the digits of a number in base MaxField + 2).
poseidon2Hash(frs) ==
  LET RECURSIVE weigh(_)
      weigh(k) == IF k = 0 THEN 0 ELSE weigh(k - 1) * (MaxField + 2) + frs[k]
  IN  1 + weigh(Len(frs))

\* computeNoteCommitment: zero without hashing when kind or value is zero.
computeNoteCommitment(note) ==
  IF note.kind = toHex64(0) \/ note.value = toHex64(0) THEN toHex64(0)
  ELSE toHex64(poseidon2Hash(<< 2, parseInt(note.kind, 16), parseInt(note.value, 16),
                                parseInt(note.address, 16), parseInt(note.psi, 16),
                                0, 0 >>))

computeNullifier(notePsi, secretKey) ==
  toHex64(poseidon2Hash(<< parseInt(notePsi, 16), parseInt(secretKey, 16) >>))

\* hexToBytes: one byte for each two digits.
hexToBytes(hex) ==
  [ i \in 1..(Len(hex) \div 2) |-> parseInt(SubSeq(hex, 2 * i - 1, 2 * i), 16) ]

\* Variant: the nullifiers are written before the commitments.
buildBlobData_NullifiersFirst(inputNotes) ==
  hexToBytes(computeNullifier(inputNotes[1].note.psi, inputNotes[1].secret_key))
    \o hexToBytes(computeNullifier(inputNotes[2].note.psi, inputNotes[2].secret_key))
    \o hexToBytes(computeNoteCommitment(inputNotes[1].note))
    \o hexToBytes(computeNoteCommitment(inputNotes[2].note))

\* buildBlobData: a zeroed array of HYLI_BLOB_LENGTH_BYTES bytes into which
\* the commitments of the two inputs and then their nullifiers are copied,
\* the offset advancing by 32 after each.  The result is its `blob`.
buildBlobData(inputNotes) ==
  LET set(blob, bytes, offset) ==
        [ i \in 1..Len(blob) |->
            IF i > offset /\ i <= offset + Len(bytes)
              THEN bytes[i - offset] ELSE blob[i] ]
      zeroed == [ i \in 1..HYLI_BLOB_LENGTH_BYTES |-> 0 ]
      c1 == set(zeroed, hexToBytes(computeNoteCommitment(inputNotes[1].note)), 0)
      c2 == set(c1, hexToBytes(computeNoteCommitment(inputNotes[2].note)), 32)
      n1 == set(c2, hexToBytes(computeNullifier(inputNotes[1].note.psi,
                                                 inputNotes[1].secret_key)), 64)
  IN  set(n1, hexToBytes(computeNullifier(inputNotes[2].note.psi,
                                          inputNotes[2].secret_key)), 96)

\* buildInputMap: its `commitments`, computeCommitments mapped through
\* toFieldHex, which puts "0x" before a string that does not start with it.
buildInputMap(inputNotes, outputNotes) ==
  LET computeCommitments ==
        << computeNoteCommitment(inputNotes[1].note),
           computeNoteCommitment(inputNotes[2].note),
           computeNoteCommitment(outputNotes[1]),
           computeNoteCommitment(outputNotes[2]) >>
  IN  [ i \in 1..Len(computeCommitments) |-> << "0x" >> \o computeCommitments[i] ]

\* Variant: initialize looks at isInitialized() instead of initPromise.
initialize_ChecksInitialized(svc) ==
  IF svc.circuit # "null" THEN svc
  ELSE [svc EXCEPT !.initPromise = "pending", !.loads = @ + 1]

\* Variant: a rejected promise is replaced by a new load.
initialize_RetriesAfterFailure(svc) ==
  IF svc.initPromise \in {"pending", "fulfilled"} THEN svc
  ELSE [svc EXCEPT !.initPromise = "pending", !.loads = @ + 1]

\* initialize up to its return: the promise of the first call is kept and
\* returned to every later call; doInitialize, which fetches the circuit, is
\* started only when there is none.
initialize(svc) ==
  IF svc.initPromise # "null" THEN svc
  ELSE [svc EXCEPT !.initPromise = "pending", !.loads = @ + 1]

\* isInitialized: circuit, backend and noir are set together.
isInitialized(svc) == svc.circuit # "null"

\* ------------------------------------------- TransferService.ts: selection
Null == [selectedNotes |-> << >>, changeAmount |-> -1, totalInput |-> -1]

createPaddingSpendableNote == [txHash |-> EmptyHash, value |-> 0, contract |-> 0]

\* Variant: the copy is not sorted.
SortByValue_Unsorted(s) == s

\* [...availableNotes].sort((a, b) => a.value - b.value): a stable sort.
RECURSIVE InsertByValue(_, _)
InsertByValue(sorted, n) ==
  IF sorted = << >> THEN << n >>
  ELSE IF n.value < Head(sorted).value THEN << n >> \o sorted
       ELSE << Head(sorted) >> \o InsertByValue(Tail(sorted), n)

RECURSIVE SortByValue(_)
SortByValue(s) ==
  IF s = << >> THEN << >>
  ELSE InsertByValue(SortByValue(SubSeq(s, 1, Len(s) - 1)), s[Len(s)])

\* for (const note of sorted) if (note.value >= amount) return ...
RECURSIVE FirstSingle(_, _, _)
FirstSingle(sorted, amount, i) ==
  IF i > Len(sorted) THEN 0
  ELSE IF sorted[i].value >= amount THEN i
       ELSE FirstSingle(sorted, amount, i + 1)

\* Variant: the pair test is "sum > amount".
RECURSIVE FirstPair_Strict(_, _, _, _)
FirstPair_Strict(sorted, amount, i, j) ==
  IF i > Len(sorted) - 1 THEN << 0, 0 >>
  ELSE IF j > Len(sorted) THEN FirstPair_Strict(sorted, amount, i + 1, i + 2)
       ELSE IF sorted[i].value + sorted[j].value > amount THEN << i, j >>
            ELSE FirstPair_Strict(sorted, amount, i, j + 1)

\* for (i = 0; i < length - 1; i++) for (j = i + 1; j < length; j++) ...
RECURSIVE FirstPair(_, _, _, _)
FirstPair(sorted, amount, i, j) ==
  IF i > Len(sorted) - 1 THEN << 0, 0 >>
  ELSE IF j > Len(sorted) THEN FirstPair(sorted, amount, i + 1, i + 2)
       ELSE IF sorted[i].value + sorted[j].value >= amount THEN << i, j >>
            ELSE FirstPair(sorted, amount, i, j + 1)

selectNotesForTransfer(availableNotes, amount) ==
  IF SumValues(availableNotes) < amount THEN Null
  ELSE LET sorted == SortByValue(availableNotes)
           k == FirstSingle(sorted, amount, 1)
           ij == FirstPair(sorted, amount, 1, 2)
       IN  IF k # 0
           THEN [selectedNotes |-> << sorted[k], createPaddingSpendableNote >>,
                 changeAmount |-> sorted[k].value - amount,
                 totalInput |-> sorted[k].value]
           ELSE IF ij # << 0, 0 >>
                THEN [selectedNotes |-> << sorted[ij[1]], sorted[ij[2]] >>,
                      changeAmount |-> sorted[ij[1]].value + sorted[ij[2]].value - amount,
                      totalInput |-> sorted[ij[1]].value + sorted[ij[2]].value]
                ELSE Null

\* -------------------------------------- TransferService.ts: spendable view
toSpendableNote(stored) ==
  [txHash |-> stored.txHash, value |-> parseInt(toHex64(stored.value), 16),
   contract |-> IF "contract" \in DOMAIN stored THEN stored.contract ELSE 0]

RECURSIVE MapSpendable(_)
MapSpendable(s) ==
  IF s = << >> THEN << >>
  ELSE << toSpendableNote(Head(s)) >> \o MapSpendable(Tail(s))

\* note?.status === "optimistic": a stored note may carry a status.
isOptimistic(stored) == "status" \in DOMAIN stored /\ stored.status = "optimistic"

getSpendableNotes(stored, pending, t) ==
  LET pendingHashes == getPendingNoteHashes(pending, t)
  IN  SelectSeq(
        MapSpendable(SelectSeq(stored, LAMBDA n : /\ n.txHash \notin pendingHashes
                                                  /\ ~isOptimistic(n))),
        LAMBDA sp : sp.value > 0)

\* ------------------------------------ TransferService.ts: the transaction
NullNote == [address |-> "null", value |-> << >>]
\* A contract (and kind, which the code sets to the contract) is a number;
\* 0 is the all-zero contract of a padding note.
createPaddingNote == [address |-> "0", value |-> toHex64(0), contract |-> 0]
createOutputNote(recipient, amount, contract) ==
  [address |-> recipient, value |-> toHex64(amount), contract |-> contract]

buildSendTransaction(selection, amount) ==
  LET contract == selection.selectedNotes[1].contract
  IN  [amount |-> amount,
       input_notes |-> selection.selectedNotes,
       output_notes |->
         << createOutputNote("recipient", amount, contract),
            IF selection.changeAmount > 0
            THEN createOutputNote("sender", selection.changeAmount, contract)
            ELSE createPaddingNote >>]

\* selection.selectedNotes.filter((n) => n.value > 0).map((n) => n.txHash)
RECURSIVE TxHashesOf(_)
TxHashesOf(s) ==
  IF s = << >> THEN << >>
  ELSE << Head(s).txHash >> \o TxHashesOf(Tail(s))

SpentNoteHashes_WithPadding(selection) == TxHashesOf(selection.selectedNotes)

SpentNoteHashes(selection) ==
  TxHashesOf(SelectSeq(selection.selectedNotes, LAMBDA n : n.value > 0))

\* Settlement backend: POST /api/transfer/prove answers a settled transfer
\* with its transaction reference and the change note, if there is one.
TransferResponse(txHash, request) ==
  [tx_hash |-> txHash,
   change_note |-> IF request.output_notes[2] = createPaddingNote
                   THEN NullNote ELSE request.output_notes[2]]

NoResult == [tx_hash |-> EmptyHash, change_note |-> NullNote]

\* ------------------------------------- TransferService.executeTransfer
\* The frame of one handleSubmit / executeTransfer run.
IdleFrame ==
  [pc |-> "idle", availableNotes |-> << >>, amount |-> 0,
   selection |-> Null, spentNoteHashes |-> << >>, marked |-> FALSE,
   stages |-> << >>, settled |-> FALSE, uploadFailed |-> FALSE,
   result |-> NoResult, error |-> "none",
   proverCalls |-> 0, backendCalls |-> 0, relayCalls |-> 0]

\* the stage at which the onProgress callback throws, if it does
ThrowChoices(stagesOfStep) == {"none"} \cup stagesOfStep

\* reportProgress(stage): the callback is called with the stage ...
reportProgress(x, stage) == [x EXCEPT !.stages = Append(@, stage)]
\* ... and may throw: thr is the stage at which the callback throws.
Throws(thr, stage) == thr = stage

\* throw before the try block: the promise rejects, nothing is released.
Reject(x, pend, err) ==
  [x |-> [x EXCEPT !.pc = "rejected", !.error = err], pending |-> pend]

\* Variant: the catch block rethrows without releasing the reservation.
Catch_NoRelease(x, pend, t, err) ==
  [x |-> [x EXCEPT !.pc = "rejected", !.error = err], pending |-> pend]

\* catch (error) { clearPendingNotes(playerName, spentNoteHashes); throw error; }
Catch(x, pend, t, err) ==
  [x |-> [x EXCEPT !.pc = "rejected", !.error = err],
   pending |-> clearPendingNotes(pend, t, x.spentNoteHashes)]

\* Steps 5-6: buildBlobData, then generateProof is called and awaited.
StepGenerateProof(x, thr, pend, t, blobOk) ==
  IF ~blobOk THEN Catch(x, pend, t, "ProofAssemblyError")
  ELSE LET x1 == reportProgress(x, "generating_proof")
       IN  IF Throws(thr, "generating_proof") THEN Catch(x1, pend, t, "CallbackError")
           ELSE [x |-> [x1 EXCEPT !.pc = "await_proof", !.proverCalls = @ + 1],
                 pending |-> pend]

\* Variant: the reservation is made without looking at the selection result.
StepStart_NoNullCheck(x, thr, pend, t, proverState, blobOk) ==
  LET x1 == reportProgress(x, "selecting_notes")
      selection == selectNotesForTransfer(x.availableNotes, x.amount)
      hashes == SpentNoteHashes(selection)
      pend1 == markNotesPending(pend, t, hashes)
      x2 == [x1 EXCEPT !.selection = selection, !.spentNoteHashes = hashes,
                       !.marked = TRUE]
      x3 == reportProgress(x2, "building_transaction")
      x4 == reportProgress(x3, "initializing_prover")
  IN  IF Throws(thr, "selecting_notes") THEN Reject(x1, pend, "CallbackError")
      ELSE IF Throws(thr, "building_transaction") THEN Catch(x3, pend1, t, "CallbackError")
      ELSE IF Throws(thr, "initializing_prover") THEN Catch(x4, pend1, t, "CallbackError")
      ELSE IF proverState = "ready" THEN StepGenerateProof(x4, thr, pend1, t, blobOk)
      ELSE [x |-> [x4 EXCEPT !.pc = "await_init"], pending |-> pend1]

\* Steps 1-4: everything up to the first await.
StepStart(x, thr, pend, t, proverState, blobOk) ==
  LET x1 == reportProgress(x, "selecting_notes")
      selection == selectNotesForTransfer(x.availableNotes, x.amount)
      hashes == SpentNoteHashes(selection)
      pend1 == markNotesPending(pend, t, hashes)
      x2 == [x1 EXCEPT !.selection = selection, !.spentNoteHashes = hashes,
                       !.marked = TRUE]
      x3 == reportProgress(x2, "building_transaction")
      x4 == reportProgress(x3, "initializing_prover")
  IN  IF Throws(thr, "selecting_notes") THEN Reject(x1, pend, "CallbackError")
      ELSE IF selection = Null THEN Reject(x1, pend, "InsufficientBalance")
      ELSE IF Throws(thr, "building_transaction") THEN Catch(x3, pend1, t, "CallbackError")
      ELSE IF Throws(thr, "initializing_prover") THEN Catch(x4, pend1, t, "CallbackError")
      ELSE IF proverState = "ready" THEN StepGenerateProof(x4, thr, pend1, t, blobOk)
      ELSE [x |-> [x4 EXCEPT !.pc = "await_init"], pending |-> pend1]

\* await proverService.initialize() has settled.
StepInitDone(x, thr, pend, t, proverState, blobOk) ==
  IF proverState = "failed" THEN Catch(x, pend, t, "ProverInitError")
  ELSE StepGenerateProof(x, thr, pend, t, blobOk)

\* Variant: the submitting_transaction stage is not reported.
StepProofDone_SkipStage(x, thr, pend, t, proofOk) ==
  IF ~proofOk THEN Catch(x, pend, t, "ProofError")
  ELSE [x |-> [x EXCEPT !.pc = "await_fetch", !.backendCalls = @ + 1],
        pending |-> pend]

\* Steps 7-8: the proof promise has settled; the request is sent.
StepProofDone(x, thr, pend, t, proofOk) ==
  IF ~proofOk THEN Catch(x, pend, t, "ProofError")
  ELSE LET x1 == reportProgress(x, "submitting_transaction")
       IN  IF Throws(thr, "submitting_transaction") THEN Catch(x1, pend, t, "CallbackError")
           ELSE [x |-> [x1 EXCEPT !.pc = "await_fetch", !.backendCalls = @ + 1],
                 pending |-> pend]

\* The fetch promise has settled: network error, non-OK or OK response.
StepFetchDone(x, pend, t, outcome) ==
  IF outcome = "network_error" THEN Catch(x, pend, t, "NetworkError")
  ELSE IF outcome = "not_ok"
       THEN [x |-> [x EXCEPT !.pc = "await_error_body"], pending |-> pend]
       ELSE [x |-> [x EXCEPT !.pc = "await_body", !.settled = TRUE], pending |-> pend]

\* Variant: the error thrown for a non-OK response bypasses the catch block.
StepErrorBody_NoRelease(x, pend, t) == Reject(x, pend, "SettlementRejected")

\* if (!response.ok) { await response.json().catch(...); throw ... }
StepErrorBody(x, pend, t) == Catch(x, pend, t, "SettlementRejected")

\* Step 9: the response body has been read; the upload is started.
StepBodyDone(x, thr, pend, t, bodyOk, response) ==
  IF ~bodyOk THEN Catch(x, pend, t, "BadResponse")
  ELSE LET x1 == reportProgress([x EXCEPT !.result = response], "notifying_recipient")
       IN  IF Throws(thr, "notifying_recipient") THEN Catch(x1, pend, t, "CallbackError")
           ELSE [x |-> [x1 EXCEPT !.pc = "await_upload", !.relayCalls = @ + 1],
                 pending |-> pend]

\* Variant: a failed upload is not swallowed and reaches the outer catch.
StepUploadDone_Rollback(x, thr, pend, t, uploadOk) ==
  IF ~uploadOk
  THEN Catch([x EXCEPT !.uploadFailed = TRUE], pend, t, "UploadError")
  ELSE LET x1 == reportProgress(x, "complete")
       IN  IF Throws(thr, "complete") THEN Catch(x1, pend, t, "CallbackError")
           ELSE [x |-> [x1 EXCEPT !.pc = "resolved"],
                 pending |-> clearPendingNotes(pend, t, x.spentNoteHashes)]

\* Step 10: the upload has settled (its failure is swallowed); release.
StepUploadDone(x, thr, pend, t, uploadOk) ==
  LET x1 == reportProgress([x EXCEPT !.uploadFailed = ~uploadOk], "complete")
  IN  IF Throws(thr, "complete") THEN Catch(x1, pend, t, "CallbackError")
      ELSE [x |-> [x1 EXCEPT !.pc = "resolved"],
            pending |-> clearPendingNotes(pend, t, x.spentNoteHashes)]

\* ----------------------------------------- TransferModal.handleSubmit
\* The continuation after executeTransfer resolved: the new note list.
FirstTwo(s) == SubSeq(s, 1, IF Len(s) < 2 THEN Len(s) ELSE 2)

NotesAfterTransfer(currentNotes, availableNotes, result, player_t) ==
  LET spentTxHashes == Hashes(FirstTwo(availableNotes))
      updatedNotes == SelectSeq(currentNotes, LAMBDA n : n.txHash \notin spentTxHashes)
  IN  IF result.change_note # NullNote /\ parseInt(result.change_note.value, 10) > 0
      THEN << [txHash |-> result.tx_hash,
               value |-> parseInt(result.change_note.value, 16),
               storedAt |-> player_t] >> \o updatedNotes
      ELSE updatedNotes

\* ------------------------------------------------------------------ Init
\* No noteStorage call has been made by the storage check.
NoCall == [op |-> "none", hashes |-> << >>, ret |-> {}]

\* loadLastFetch returns null: nothing is persisted under the key.
NoFetch == -1

\* The hook is not rendered.
UnmountedHook ==
  [live |-> FALSE, inst |-> 0, isMounted |-> FALSE, timer |-> FALSE,
   lastFetch |-> NoFetch, effectSince |-> NoFetch, isPolling |-> FALSE]

\* No fetchNotes call has been started.
NoCycle ==
  [started |-> 0,
   last |-> [batch |-> << >>, decrypted |-> << >>, outcome |-> "none"]]

\* Nothing is stored under any key, nobody is subscribed: the state of the
\* buckets in the behaviours that do not exercise them.
BucketsIdle ==
  /\ localStorage = [legacy |-> << >>, buckets |-> [k \in PlayerKeys |-> NoItem]]
  /\ listeners = [k \in PlayerKeys |-> {}]
  /\ delivered = NoCalls

\* The Manage Notes dialog is not rendered.
NoFile == [name |-> "none", content |-> "none", typeofPlayer |-> "undefined",
           player |-> << >>, notes |-> << >>]
\* atDrop records the owner's store at the moment a file was dropped.
ClosedModal ==
  [open |-> FALSE, notes |-> << >>, isUploading |-> FALSE, file |-> NoFile,
   error |-> "none", atDrop |-> << >>]

\* No prover input has been built.
NoBlobCall ==
  [inputNotes |-> << >>, outputNotes |-> << >>, done |-> FALSE,
   blob |-> << >>, commitments |-> << >>]

\* buildSendTransaction was not called.
NoTx == [amount |-> 0, input_notes |-> << >>, output_notes |-> << >>]

\* A sliceOrange call that was not made; the window globals as set at module
\* load: a Mutex that is not locked, an empty window.slicedOranges.
IdleCall ==
  [pc |-> "idle", id |-> 0, penalty |-> 0, found |-> FALSE, ticket |-> 0,
   acquires |-> 0, releases |-> 0]
NoSlice ==
  [version |-> "current", locked |-> FALSE, queue |-> << >>,
   slicedOranges |-> {}, tickets |-> 0,
   calls |-> [c \in 1..MaxSlicers |-> IdleCall],
   passed |-> [o \in 1..MaxOranges |-> 0],
   submitted |-> [o \in 1..MaxOranges |-> 0]]

\* proverService as constructed: no circuit, no initPromise, no caller.
NewProver ==
  [initPromise |-> "null", circuit |-> "null", loads |-> 0, calls |-> 0,
   callers |-> [c \in 1..MaxCallers |-> [method |-> "none", pc |-> "idle"]]]

AuxIdle ==
  /\ BucketsIdle
  /\ modal = ClosedModal
  /\ blobCall = NoBlobCall
  /\ proverSvc = NewProver
  /\ selTx = NoTx
  /\ slicer = NoSlice

\* No relay traffic, no poller: the state of the encrypted-note channel in
\* the behaviours that do not exercise it.
PollIdle ==
  /\ relay = << >>
  /\ savedLastFetch = NoFetch
  /\ hook = UnmountedHook
  /\ passes = << >>
  /\ cycles = NoCycle

\* The stores of an owner who received up to MaxNotes notes earlier, each
\* prepended by addStoredNote: hashes n, ..., 1 from newest to oldest.
RECURSIVE StoresOfSize(_)
StoresOfSize(n) ==
  IF n = 0 THEN { << >> }
  ELSE { addStoredNote(older, [txHash |-> n, value |-> v, storedAt |-> 0])
           : older \in StoresOfSize(n - 1), v \in NoteValues }

InitialStores == UNION { StoresOfSize(n) : n \in 0..MaxNotes }

Init ==
  /\ storedNotes \in InitialStores
  /\ pendingTransfers = << >>
  /\ now = 0
  /\ nextTx = Len(storedNotes) + 1
  /\ prover = "none"
  /\ nullified = {}
  /\ xfer = [p \in Procs |-> IdleFrame]
  /\ selAvail = << >>
  /\ selAmount = 0
  /\ selResult = Null
  /\ selDone = FALSE
  /\ storeOp = NoCall
  /\ PollIdle
  /\ AuxIdle

\* ---------------------------------------------------------------- actions
\* A settled executeTransfer promise resumes its awaiting handleSubmit in a
\* microtask: that continuation runs before any timer, user event or
\* network response is handled.
ContinuationQueued == \E p \in Procs : xfer[p].pc \in {"resolved", "rejected"}

\* Date.now() advances.
Tick ==
  /\ ~ContinuationQueued
  /\ now + TickStep <= MaxTime
  /\ now' = now + TickStep
  /\ UNCHANGED << storedNotes, pendingTransfers, nextTx, prover,
                  nullified, xfer, selVars,
                  storeVars, pollVars, auxVars >>

\* The dialog is rendered with the spendable notes of that moment.
OpenModal(p) ==
  /\ ~ContinuationQueued
  /\ xfer[p].pc = "idle"
  /\ xfer' = [xfer EXCEPT ![p].pc = "open",
                          ![p].availableNotes =
                             getSpendableNotes(storedNotes, pendingTransfers, now)]
  /\ UNCHANGED << storedNotes, pendingTransfers, now, nextTx,
                  prover, nullified, selVars,
                  storeVars, pollVars, auxVars >>

\* handleSubmit refuses an amount above the displayed balance.
SubmitRefused(p) ==
  /\ ~ContinuationQueued
  /\ xfer[p].pc = "open"
  /\ \E amt \in 1..MaxAmount :
       /\ amt > SumValues(xfer[p].availableNotes)
       /\ xfer' = [xfer EXCEPT ![p].pc = "input_error", ![p].amount = amt,
                               ![p].error = "ValidationError"]
  /\ UNCHANGED << storedNotes, pendingTransfers, now, nextTx,
                  prover, nullified, selVars,
                  storeVars, pollVars, auxVars >>

\* handleSubmit calls executeTransfer, which runs up to its first await.
Submit(p) ==
  /\ ~ContinuationQueued
  /\ xfer[p].pc = "open"
  /\ \E amt \in 1..MaxAmount,
        thr \in ThrowChoices({"selecting_notes", "building_transaction",
                              "initializing_prover", "generating_proof"}),
        blobOk \in BOOLEAN :
       /\ amt <= SumValues(xfer[p].availableNotes)
       /\ LET x0 == [xfer[p] EXCEPT !.amount = amt]
              out == StepStart(x0, thr, pendingTransfers, now, prover, blobOk)
          IN  /\ xfer' = [xfer EXCEPT ![p] = out.x]
              /\ pendingTransfers' = out.pending
              /\ prover' = IF out.x.pc = "await_init" /\ prover = "none"
                           THEN "loading" ELSE prover
  /\ UNCHANGED << storedNotes, now, nextTx, nullified, selVars,
                  storeVars, pollVars, auxVars >>

\* ProverService.doInitialize settles: the circuit is loaded or not.
ProverLoaded ==
  /\ ~ContinuationQueued
  /\ prover = "loading"
  /\ \E ok \in BOOLEAN : prover' = IF ok THEN "ready" ELSE "failed"
  /\ UNCHANGED << storedNotes, pendingTransfers, now, nextTx,
                  nullified, xfer, selVars,
                  storeVars, pollVars, auxVars >>

InitDone(p) ==
  /\ ~ContinuationQueued
  /\ xfer[p].pc = "await_init"
  /\ prover \in {"ready", "failed"}
  /\ \E blobOk \in BOOLEAN, thr \in ThrowChoices({"generating_proof"}) :
       LET out == StepInitDone(xfer[p], thr, pendingTransfers, now, prover, blobOk)
       IN  /\ xfer' = [xfer EXCEPT ![p] = out.x]
           /\ pendingTransfers' = out.pending
  /\ UNCHANGED << storedNotes, now, nextTx, prover, nullified, selVars,
                  storeVars, pollVars, auxVars >>

ProofDone(p) ==
  /\ ~ContinuationQueued
  /\ xfer[p].pc = "await_proof"
  /\ \E proofOk \in BOOLEAN, thr \in ThrowChoices({"submitting_transaction"}) :
       LET out == StepProofDone(xfer[p], thr, pendingTransfers, now, proofOk)
       IN  /\ xfer' = [xfer EXCEPT ![p] = out.x]
           /\ pendingTransfers' = out.pending
  /\ UNCHANGED << storedNotes, now, nextTx, prover, nullified, selVars,
                  storeVars, pollVars, auxVars >>

\* The ledger settles a transfer only if none of its inputs is spent yet.
FetchDone(p) ==
  /\ ~ContinuationQueued
  /\ xfer[p].pc = "await_fetch"
  /\ \E outcome \in {"ok", "not_ok", "network_error"} :
       /\ outcome = "ok" => Range(xfer[p].spentNoteHashes) \cap nullified = {}
       /\ LET out == StepFetchDone(xfer[p], pendingTransfers, now, outcome)
          IN  /\ xfer' = [xfer EXCEPT ![p] = out.x]
              /\ pendingTransfers' = out.pending
       /\ nullified' = IF outcome = "ok"
                       THEN nullified \cup Range(xfer[p].spentNoteHashes)
                       ELSE nullified
  /\ UNCHANGED << storedNotes, now, nextTx, prover, selVars,
                  storeVars, pollVars, auxVars >>

ErrorBodyDone(p) ==
  /\ ~ContinuationQueued
  /\ xfer[p].pc = "await_error_body"
  /\ LET out == StepErrorBody(xfer[p], pendingTransfers, now)
     IN  /\ xfer' = [xfer EXCEPT ![p] = out.x]
         /\ pendingTransfers' = out.pending
  /\ UNCHANGED << storedNotes, now, nextTx, prover, nullified, selVars,
                  storeVars, pollVars, auxVars >>

BodyDone(p) ==
  /\ ~ContinuationQueued
  /\ xfer[p].pc = "await_body"
  /\ \E bodyOk \in BOOLEAN, thr \in ThrowChoices({"notifying_recipient"}) :
       LET response == TransferResponse(nextTx,
                         buildSendTransaction(xfer[p].selection, xfer[p].amount))
           out == StepBodyDone(xfer[p], thr, pendingTransfers, now, bodyOk, response)
       IN  /\ xfer' = [xfer EXCEPT ![p] = out.x]
           /\ pendingTransfers' = out.pending
  /\ nextTx' = nextTx + 1
  /\ UNCHANGED << storedNotes, now, prover, nullified, selVars,
                  storeVars, pollVars, auxVars >>

UploadDone(p) ==
  /\ ~ContinuationQueued
  /\ xfer[p].pc = "await_upload"
  /\ \E uploadOk \in BOOLEAN, thr \in ThrowChoices({"complete"}) :
       LET out == StepUploadDone(xfer[p], thr, pendingTransfers, now, uploadOk)
       IN  /\ xfer' = [xfer EXCEPT ![p] = out.x]
           /\ pendingTransfers' = out.pending
  /\ UNCHANGED << storedNotes, now, nextTx, prover, nullified, selVars,
                  storeVars, pollVars, auxVars >>

\* handleSubmit continues after executeTransfer resolved; of the finished
\* call the dialog keeps the status and the transaction hash.
UpdateStore(p) ==
  /\ xfer[p].pc = "resolved"
  /\ storedNotes' = setStoredNotes(storedNotes,
                      NotesAfterTransfer(storedNotes, xfer[p].availableNotes,
                                         xfer[p].result, now))
  /\ xfer' = [xfer EXCEPT ![p] = [IdleFrame EXCEPT !.pc = "success",
                                                   !.result = xfer[p].result]]
  /\ UNCHANGED << pendingTransfers, now, nextTx, prover,
                  nullified, selVars,
                  storeVars, pollVars, auxVars >>

\* handleSubmit's catch block after executeTransfer rejected; the dialog
\* keeps the status and the error message.
ShowError(p) ==
  /\ xfer[p].pc = "rejected"
  /\ xfer' = [xfer EXCEPT ![p] = [IdleFrame EXCEPT !.pc = "error",
                                                   !.error = xfer[p].error]]
  /\ UNCHANGED << storedNotes, pendingTransfers, now, nextTx, prover,
                  nullified, selVars,
                  storeVars, pollVars, auxVars >>

Next ==
  \/ Tick
  \/ ProverLoaded
  \/ \E p \in Procs : OpenModal(p)
  \/ \E p \in Procs : SubmitRefused(p)
  \/ \E p \in Procs : Submit(p)
  \/ \E p \in Procs : InitDone(p)
  \/ \E p \in Procs : ProofDone(p)
  \/ \E p \in Procs : FetchDone(p)
  \/ \E p \in Procs : ErrorBodyDone(p)
  \/ \E p \in Procs : BodyDone(p)
  \/ \E p \in Procs : UploadDone(p)
  \/ \E p \in Procs : UpdateStore(p)
  \/ \E p \in Procs : ShowError(p)

Spec == Init /\ [][Next]_vars

\* ------------------------------------------- selection as a pure function
\* Every list of up to MaxSelNotes spendable notes (distinct hashes, positive
\* values, any order) and every positive amount.
SelInputs ==
  UNION { { [ i \in 1..n |-> [txHash |-> i, value |-> v[i]] ]
            : v \in [1..n -> 1..MaxSelValue] } : n \in 0..MaxSelNotes }

InitSel ==
  /\ storedNotes = << >>
  /\ pendingTransfers = << >>
  /\ now = 0
  /\ nextTx = 1
  /\ prover = "none"
  /\ nullified = {}
  /\ xfer = [p \in Procs |-> IdleFrame]
  /\ selAvail \in SelInputs
  /\ selAmount \in 1..MaxSelAmount
  /\ selResult = Null
  /\ selDone = FALSE
  /\ storeOp = NoCall
  /\ PollIdle
  /\ AuxIdle

SelectNotes ==
  /\ ~selDone
  /\ selResult' = selectNotesForTransfer(selAvail, selAmount)
  /\ selDone' = TRUE
  /\ UNCHANGED << mainVars, selAvail, selAmount, storeVars, pollVars, auxVars >>

NextSel == SelectNotes

SpecSel == InitSel /\ [][NextSel]_vars

\* ------------------------------------- noteStorage.ts: notes, call by call
\* addStoredNote and clearStoredNotes called in any order by one owner.
InitNotes ==
  /\ storedNotes = << >>
  /\ pendingTransfers = << >>
  /\ now = 0
  /\ nextTx = 1
  /\ prover = "none"
  /\ nullified = {}
  /\ xfer = [p \in Procs |-> IdleFrame]
  /\ selAvail = << >>
  /\ selAmount = 0
  /\ selResult = Null
  /\ selDone = FALSE
  /\ storeOp = NoCall
  /\ PollIdle
  /\ AuxIdle

StoreFrame == << nextTx, prover, nullified, xfer, selVars, pollVars, auxVars >>

AddNote ==
  \E h \in 1..MaxStoreHash, v \in NoteValues :
    /\ Len(storedNotes) < MaxStoreNotes
    /\ storedNotes' = addStoredNote(storedNotes,
                         [txHash |-> h, value |-> v, storedAt |-> now])
    /\ storeOp' = [op |-> "addStoredNote", hashes |-> << h >>, ret |-> {}]
    /\ UNCHANGED << pendingTransfers, now, StoreFrame >>

clearStoredNotes(existing) == << >>

ClearNotes ==
  /\ storedNotes' = clearStoredNotes(storedNotes)
  /\ storeOp' = [op |-> "clearStoredNotes", hashes |-> << >>, ret |-> {}]
  /\ UNCHANGED << pendingTransfers, now, StoreFrame >>

NextNotes ==
  \/ AddNote
  \/ ClearNotes

SpecNotes == InitNotes /\ [][NextNotes]_vars

\* ------------------------------ noteStorage.ts: buckets and listeners
\* The exported functions of noteStorage.ts called in any order with any of
\* the names, over a legacy bucket left by an earlier version.
LegacyBuckets ==
  { << >>,
    << [txHash |-> 1, player |-> << "A", " " >>],
       [txHash |-> 2, player |-> << "b" >>],
       [txHash |-> 2] >> }

InitBuckets ==
  /\ storedNotes = << >>
  /\ pendingTransfers = << >>
  /\ now = 0
  /\ nextTx = 1
  /\ prover = "none"
  /\ nullified = {}
  /\ xfer = [p \in Procs |-> IdleFrame]
  /\ selAvail = << >>
  /\ selAmount = 0
  /\ selResult = Null
  /\ selDone = FALSE
  /\ storeOp = NoCall
  /\ PollIdle
  /\ modal = ClosedModal
  /\ blobCall = NoBlobCall
  /\ proverSvc = NewProver
  /\ selTx = NoTx
  /\ slicer = NoSlice
  /\ localStorage \in { [legacy |-> l, buckets |-> [k \in PlayerKeys |-> NoItem]]
                          : l \in LegacyBuckets }
  /\ listeners = [k \in PlayerKeys |-> {}]
  /\ delivered = NoCalls

BucketFrame == << mainVars, selVars, pollVars, modal, blobCall, proverSvc,
                 selTx, slicer >>

\* What a call that resolves no owner reads.
Unresolved(storage) == [notes |-> << >>, storage |-> storage]

GetNotes ==
  \E name \in PlayerNames :
    LET key == normalizePlayerKey(name)
        read == IF key = << >> THEN Unresolved(localStorage)
                ELSE readFromStorageResolved(localStorage, key)
    IN  /\ localStorage' = read.storage
        /\ delivered' = NoCalls
        /\ storeOp' = [op |-> "getStoredNotes", player |-> name,
                       ret |-> read.notes]
        /\ UNCHANGED << listeners, BucketFrame >>

AddBucketNote ==
  \E name \in PlayerNames, h \in 1..MaxBucketHash :
    LET key == normalizePlayerKey(name)
        entry == [txHash |-> h, player |-> name]
    IN  /\ IF key = << >>
             THEN UNCHANGED localStorage /\ delivered' = NoCalls
             ELSE LET existing == readFromStorageResolved(localStorage, key)
                      next == addStoredNote(existing.notes, entry)
                  IN  /\ Len(existing.notes) < MaxBucketNotes
                      /\ localStorage' =
                           writeToStorageResolved(existing.storage, key, next)
                      /\ delivered' = notify(listeners, key, next)
        /\ storeOp' = [op |-> "addStoredNote", player |-> name, ret |-> << >>]
        /\ UNCHANGED << listeners, BucketFrame >>

ReplaceBucketNote ==
  \E name \in PlayerNames, old \in 1..MaxBucketHash, h \in 1..MaxBucketHash :
    LET key == normalizePlayerKey(name)
        entry == [txHash |-> h, player |-> name]
    IN  /\ IF key = << >>
             THEN UNCHANGED localStorage /\ delivered' = NoCalls
             ELSE LET existing == readFromStorageResolved(localStorage, key)
                      next == replaceStoredNote(existing.notes, old, entry)
                  IN  IF old \notin Hashes(existing.notes)
                        THEN /\ localStorage' = existing.storage
                             /\ delivered' = NoCalls
                        ELSE /\ localStorage' =
                                  writeToStorageResolved(existing.storage, key, next)
                             /\ delivered' = notify(listeners, key, next)
        /\ storeOp' = [op |-> "replaceStoredNote", player |-> name,
                       ret |-> << old >>]
        /\ UNCHANGED << listeners, BucketFrame >>

SetAllNotes ==
  \E name \in PlayerNames, n \in 0..MaxBucketNotes :
    \E hs \in [1..n -> 1..MaxBucketHash] :
      LET key == normalizePlayerKey(name)
          entries == [ i \in 1..n |-> [txHash |-> hs[i], player |-> name] ]
      IN  /\ IF key = << >>
               THEN UNCHANGED localStorage /\ delivered' = NoCalls
               ELSE /\ localStorage' =
                         writeToStorageResolved(localStorage, key, entries)
                    /\ delivered' = notify(listeners, key, entries)
          /\ storeOp' = [op |-> "setStoredNotes", player |-> name, ret |-> << >>]
          /\ UNCHANGED << listeners, BucketFrame >>

ClearBucket ==
  \E name \in PlayerNames :
    LET key == normalizePlayerKey(name)
    IN  /\ IF key = << >>
             THEN UNCHANGED localStorage /\ delivered' = NoCalls
             ELSE /\ localStorage' =
                       writeToStorageResolved(localStorage, key, << >>)
                  /\ delivered' = notify(listeners, key, << >>)
        /\ storeOp' = [op |-> "clearStoredNotes", player |-> name, ret |-> << >>]
        /\ UNCHANGED << listeners, BucketFrame >>

\* subscribeToStoredNotes: with no owner the listener is called at once with
\* the empty list and nothing is registered.
Subscribe ==
  \E name \in PlayerNames, l \in 1..MaxListeners :
    LET key == normalizePlayerKey(name)
    IN  /\ IF key = << >>
             THEN /\ UNCHANGED listeners
                  /\ delivered' = [NoCalls EXCEPT ![l] = << << >> >>]
             ELSE /\ listeners' = [listeners EXCEPT ![key] = @ \cup {l}]
                  /\ delivered' = NoCalls
        /\ storeOp' = [op |-> "subscribeToStoredNotes", player |-> name,
                       ret |-> << l >>]
        /\ UNCHANGED << localStorage, BucketFrame >>

\* The function subscribeToStoredNotes returned for (name, l) is called.
Unsubscribe ==
  \E name \in PlayerNames, l \in 1..MaxListeners :
    LET key == normalizePlayerKey(name)
    IN  /\ IF key = << >>
             THEN UNCHANGED listeners
             ELSE listeners' = [listeners EXCEPT ![key] = @ \ {l}]
        /\ delivered' = NoCalls
        /\ storeOp' = [op |-> "unsubscribe", player |-> name, ret |-> << l >>]
        /\ UNCHANGED << localStorage, BucketFrame >>

NextBuckets ==
  \/ GetNotes
  \/ AddBucketNote
  \/ ReplaceBucketNote
  \/ SetAllNotes
  \/ ClearBucket
  \/ Subscribe
  \/ Unsubscribe

SpecBuckets == InitBuckets /\ [][NextBuckets]_vars

\* --------------------------------- ManageNotesModal: importing an archive
\* The owner's store receives notes while the Manage Notes dialog is open
\* and archives are dropped on it.
CurrentPlayer == << "A" >>

StoredNoteOf(h, t) ==
  [txHash |-> h, storedAt |-> t, player |-> CurrentPlayer, hasNote |-> TRUE,
   typeof |-> [txHash |-> "string", storedAt |-> "number", player |-> "string"]]

\* The records an archive may hold: StoredNotes, and records with one field
\* of the wrong type or without a `note` key.
ArchiveRecords ==
  { StoredNoteOf(h, t) : h \in 0..MaxImportHash, t \in 0..MaxImportTime }
    \cup { [StoredNoteOf(1, 0) EXCEPT !.typeof.txHash = "number"],
           [StoredNoteOf(1, 0) EXCEPT !.hasNote = FALSE],
           [StoredNoteOf(1, 0) EXCEPT !.typeof.storedAt = "string"],
           [StoredNoteOf(1, 0) EXCEPT !.typeof.player = "undefined"] }

\* The files dropped on the dialog: a file that is no .zip, a .zip that
\* cannot be read, and archives in the array and in the object form, the
\* latter with a player that matches the session's after normalization, with
\* another one, with a blank one and with none.
Archives ==
  LET lists == UNION { [1..n -> ArchiveRecords] : n \in 0..MaxArchiveNotes }
      single == { l \in lists : Len(l) = 1 /\ isStoredNote(l[1]) }
      File(name, content, typeofPlayer, player, notes) ==
        [name |-> name, content |-> content, typeofPlayer |-> typeofPlayer,
         player |-> player, notes |-> notes]
  IN  { File("txt", "array", "undefined", << >>, << StoredNoteOf(1, 0) >>),
        File("zip", "unreadable", "undefined", << >>, << >>),
        File("zip", "object", "undefined", << >>, << StoredNoteOf(1, 0) >>) }
        \cup { File("zip", "array", "undefined", << >>, l) :
                 l \in { r \in lists : Len(r) = 1 } }
        \cup { File("zip", "object", "string", << "a", " " >>, l) : l \in lists }
        \cup { File("zip", "object", "string", pl, l) :
                 pl \in { << "b" >>, << " " >> }, l \in single }

InitImport ==
  /\ storedNotes = << >>
  /\ pendingTransfers = << >>
  /\ now = 0
  /\ nextTx = 1
  /\ prover = "none"
  /\ nullified = {}
  /\ xfer = [p \in Procs |-> IdleFrame]
  /\ selAvail = << >>
  /\ selAmount = 0
  /\ selResult = Null
  /\ selDone = FALSE
  /\ storeOp = NoCall
  /\ PollIdle
  /\ BucketsIdle
  /\ modal = ClosedModal
  /\ blobCall = NoBlobCall
  /\ proverSvc = NewProver
  /\ selTx = NoTx
  /\ slicer = NoSlice

ImportFrame == << pendingTransfers, now, nextTx, prover, nullified, xfer,
                 selVars, storeVars, pollVars, bucketVars, blobCall, proverSvc,
                 selTx, slicer >>

\* The dialog is rendered with the notes of useStoredNotes, which
\* processArchive captures.
OpenManage ==
  /\ ~modal.open
  /\ modal' = [modal EXCEPT !.open = TRUE, !.notes = storedNotes]
  /\ UNCHANGED << storedNotes, ImportFrame >>

\* The faucet or the inbox poller adds a note to the owner's store.
\* The dialog is rendered again; processArchive is not created again.
ReceiveNote ==
  \E h \in 1..MaxImportHash, t \in 0..MaxImportTime :
    /\ Len(storedNotes) < MaxImportNotes
    /\ \A i \in 1..Len(storedNotes) : storedNotes[i].storedAt <= t
    /\ storedNotes' = addStoredNote(storedNotes, StoredNoteOf(h, t))
    /\ UNCHANGED << modal, ImportFrame >>

\* processArchive up to `await readNotesArchive(file)`.
DropFile ==
  \E file \in Archives :
    /\ modal.open
    /\ ~modal.isUploading
    /\ modal' = IF file.name # "zip"
                  THEN [modal EXCEPT !.file = file, !.error = "not a zip"]
                  ELSE [modal EXCEPT !.file = file, !.error = "none",
                                     !.isUploading = TRUE,
                                     !.atDrop = storedNotes]
    /\ UNCHANGED << storedNotes, ImportFrame >>

\* processArchive from there on.  setIsUploading(false) has the callback
\* created again, over the notes of that render.
ArchiveRead ==
  /\ modal.isUploading
  /\ LET done == processArchive(modal.notes, CurrentPlayer, storedNotes, modal.file)
     IN  /\ storedNotes' = done.store
         /\ modal' = [modal EXCEPT !.isUploading = FALSE, !.error = done.error,
                                   !.notes = done.store]
  /\ UNCHANGED ImportFrame

NextImport ==
  \/ OpenManage
  \/ ReceiveNote
  \/ DropFile
  \/ ArchiveRead

SpecImport == InitImport /\ [][NextImport]_vars

\* ------------------------------------- ProverService: blob and input map
\* buildBlobData and buildInputMap applied to two input notes, which are
\* notes of any field values or the padding note, and two output notes.
NoteOf(kind, value, address, psi) ==
  [kind |-> toHex64(kind), value |-> toHex64(value),
   address |-> toHex64(address), psi |-> toHex64(psi)]

InputNotes ==
  { [note |-> NoteOf(k, v, a, p), secret_key |-> toHex64(sk)] :
      k \in 0..MaxField, v \in 0..MaxField, a \in 0..MaxField,
      p \in 0..MaxField, sk \in 0..MaxField }

InitBlob ==
  /\ storedNotes = << >>
  /\ pendingTransfers = << >>
  /\ now = 0
  /\ nextTx = 1
  /\ prover = "none"
  /\ nullified = {}
  /\ xfer = [p \in Procs |-> IdleFrame]
  /\ selAvail = << >>
  /\ selAmount = 0
  /\ selResult = Null
  /\ selDone = FALSE
  /\ storeOp = NoCall
  /\ PollIdle
  /\ BucketsIdle
  /\ modal = ClosedModal
  /\ proverSvc = NewProver
  /\ selTx = NoTx
  /\ slicer = NoSlice
  /\ \E first \in InputNotes, second \in InputNotes :
       blobCall = [NoBlobCall EXCEPT
                     !.inputNotes = << first, second >>,
                     !.outputNotes = << NoteOf(1, 1, 1, 1), NoteOf(0, 0, 0, 0) >>]

BuildProverInput ==
  /\ ~blobCall.done
  /\ blobCall' =
       [blobCall EXCEPT
          !.done = TRUE,
          !.blob = buildBlobData(blobCall.inputNotes),
          !.commitments = buildInputMap(blobCall.inputNotes, blobCall.outputNotes)]
  /\ UNCHANGED << mainVars, selVars, storeVars, pollVars, bucketVars, modal,
                  proverSvc, selTx, slicer >>

NextBlob == BuildProverInput

SpecBlob == InitBlob /\ [][NextBlob]_vars

\* ------------------------------------------ ProverService.initialize
\* initialize() and generateProof() called by several callers while the
\* circuit is being fetched, and after.
InitProver ==
  /\ storedNotes = << >>
  /\ pendingTransfers = << >>
  /\ now = 0
  /\ nextTx = 1
  /\ prover = "none"
  /\ nullified = {}
  /\ xfer = [p \in Procs |-> IdleFrame]
  /\ selAvail = << >>
  /\ selAmount = 0
  /\ selResult = Null
  /\ selDone = FALSE
  /\ storeOp = NoCall
  /\ PollIdle
  /\ BucketsIdle
  /\ modal = ClosedModal
  /\ blobCall = NoBlobCall
  /\ proverSvc = NewProver
  /\ selTx = NoTx
  /\ slicer = NoSlice

ProverFrame == << mainVars, selVars, storeVars, pollVars, bucketVars, modal,
                 blobCall, selTx, slicer >>

\* A caller that is not inside a call calls initialize() and awaits the
\* promise it returns.
CallInitialize ==
  \E c \in 1..MaxCallers :
    /\ proverSvc.calls < MaxProverCalls
    /\ proverSvc.callers[c].pc # "awaiting"
    /\ proverSvc' =
         [initialize(proverSvc) EXCEPT
            !.calls = @ + 1,
            !.callers[c] = [method |-> "initialize", pc |-> "awaiting"]]
    /\ UNCHANGED ProverFrame

\* generateProof (and executeTransfer before it) awaits initialize() when
\* isInitialized() is false, and goes on at once when it is true.
CallGenerateProof ==
  \E c \in 1..MaxCallers :
    /\ proverSvc.calls < MaxProverCalls
    /\ proverSvc.callers[c].pc # "awaiting"
    /\ proverSvc' =
         IF isInitialized(proverSvc)
           THEN [proverSvc EXCEPT
                   !.calls = @ + 1,
                   !.callers[c] = [method |-> "generateProof", pc |-> "proving"]]
           ELSE [initialize(proverSvc) EXCEPT
                   !.calls = @ + 1,
                   !.callers[c] = [method |-> "generateProof", pc |-> "awaiting"]]
    /\ UNCHANGED ProverFrame

\* doInitialize ends: the circuit was fetched and the fields are set, or
\* the fetch failed and the promise rejects.
LoadSettles ==
  \E ok \in BOOLEAN :
    /\ proverSvc.initPromise = "pending"
    /\ proverSvc' =
         IF ok THEN [proverSvc EXCEPT !.initPromise = "fulfilled",
                                      !.circuit = "loaded"]
               ELSE [proverSvc EXCEPT !.initPromise = "rejected"]
    /\ UNCHANGED ProverFrame

\* The await of a caller ends once the promise has settled.
Resume ==
  \E c \in 1..MaxCallers :
    /\ proverSvc.callers[c].pc = "awaiting"
    /\ proverSvc.initPromise \in {"fulfilled", "rejected"}
    /\ proverSvc' =
         [proverSvc EXCEPT
            !.callers[c].pc =
               IF proverSvc.initPromise = "rejected" THEN "rejected"
               ELSE IF proverSvc.callers[c].method = "generateProof"
                      THEN "proving" ELSE "returned"]
    /\ UNCHANGED ProverFrame

NextProver ==
  \/ CallInitialize
  \/ CallGenerateProof
  \/ LoadSettles
  \/ Resume

SpecProver == InitProver /\ [][NextProver]_vars

\* ------------------------------------------------ App: the slice mutex
\* Mutex.acquire called by call c: the lock is taken at once, or the call's
\* resolve function is queued.  pc "acquired" is a resolved promise whose
\* continuation has not run yet.
acquire(s, c) ==
  IF ~s.locked
    THEN [s EXCEPT !.locked = TRUE, !.calls[c].pc = "acquired"]
    ELSE [s EXCEPT !.queue = Append(@, c), !.calls[c].pc = "queued"]

\* Variant: handing the lock over also clears the flag.
release_Unlocks(s) ==
  IF Len(s.queue) > 0
    THEN [s EXCEPT !.queue = Tail(@), !.locked = FALSE,
                   !.calls[Head(s.queue)].pc = "acquired"]
    ELSE [s EXCEPT !.locked = FALSE]

\* Mutex.release: the first queued resolve function is called and the lock
\* stays taken; without a waiter the lock is freed.
release(s) ==
  IF Len(s.queue) > 0
    THEN [s EXCEPT !.queue = Tail(@), !.calls[Head(s.queue)].pc = "acquired"]
    ELSE [s EXCEPT !.locked = FALSE]

\* The finally block of call c, which then returns.
Finally(s, c) ==
  [release(s) EXCEPT !.calls[c].pc = "done", !.calls[c].releases = @ + 1]

\* setOranges(...sliced: true) and window.slicedOranges.add(orangeId).
MarkSliced(s, c) == [s EXCEPT !.slicedOranges = @ \cup {s.calls[c].id}]

\* sliceOrange of call c from the end of `await acquire()` to its next await
\* or to its return.  App.tsx: the section has no await, and the faucet
\* request is submitted after the release.  Earlier version: the request is
\* awaited inside the section, before the orange is marked.
sliceOrangeSection(s, c) ==
  LET call == s.calls[c]
      counted == [s EXCEPT !.passed[call.id] = @ + 1]
      requested == [counted EXCEPT !.submitted[call.id] = @ + 1]
  IN  IF ~call.found \/ call.id \in s.slicedOranges THEN Finally(s, c)
      ELSE IF s.version = "current"
        THEN Finally(MarkSliced(IF call.penalty = 0 THEN requested ELSE counted, c), c)
      ELSE IF call.penalty = 0
        THEN [requested EXCEPT !.calls[c].pc = "in_faucet"]
        ELSE Finally(MarkSliced(counted, c), c)

InitMutex ==
  /\ storedNotes = << >>
  /\ pendingTransfers = << >>
  /\ now = 0
  /\ nextTx = 1
  /\ prover = "none"
  /\ nullified = {}
  /\ xfer = [p \in Procs |-> IdleFrame]
  /\ selAvail = << >>
  /\ selAmount = 0
  /\ selResult = Null
  /\ selDone = FALSE
  /\ storeOp = NoCall
  /\ PollIdle
  /\ BucketsIdle
  /\ modal = ClosedModal
  /\ blobCall = NoBlobCall
  /\ proverSvc = NewProver
  /\ selTx = NoTx
  /\ \E v \in {"current", "earlier"} : slicer = [NoSlice EXCEPT !.version = v]

MutexFrame == << mainVars, selVars, storeVars, pollVars, bucketVars, modal,
                blobCall, proverSvc, selTx >>

\* sliceOrange(orangeId) is called, by the pointer handler or again later,
\* and runs up to `await window.orangeMutex.acquire()`; without a player it
\* returns before.  found: the orange is in the oranges of the render and
\* not marked sliced there; penalty: bombPenalty of the render.
CallSliceOrange ==
  \E c \in 1..MaxSlicers, id \in 1..MaxOranges, penalty \in 0..1,
     found \in BOOLEAN, hasPlayer \in BOOLEAN :
    /\ slicer.calls[c].pc \in {"idle", "done"}
    /\ slicer.tickets < MaxSliceCalls
    /\ LET called == [slicer EXCEPT
                        !.tickets = @ + 1,
                        !.calls[c] = [pc |-> "done", id |-> id, penalty |-> penalty,
                                      found |-> found, ticket |-> slicer.tickets + 1,
                                      acquires |-> 0, releases |-> 0]]
       IN  slicer' = IF ~hasPlayer THEN called
                     ELSE acquire([called EXCEPT !.calls[c].acquires = 1], c)
    /\ UNCHANGED MutexFrame

\* The continuation of `await acquire()` runs.
EnterSection ==
  \E c \in 1..MaxSlicers :
    /\ slicer.calls[c].pc = "acquired"
    /\ slicer' = sliceOrangeSection(slicer, c)
    /\ UNCHANGED MutexFrame

\* Earlier version: nodeService.requestFaucet settles (a rejection is caught
\* inside the section); the orange is marked and the finally block runs.
FaucetSettles ==
  \E c \in 1..MaxSlicers :
    /\ slicer.calls[c].pc = "in_faucet"
    /\ slicer' = Finally(MarkSliced(slicer, c), c)
    /\ UNCHANGED MutexFrame

NextMutex ==
  \/ CallSliceOrange
  \/ EnterSection
  \/ FaucetSettles

SpecMutex == InitMutex /\ [][NextMutex]_vars

\* ------------------------------- spending from a store of any notes
\* The note of a StoredNote is whatever the faucet, the relay or an imported
\* archive delivered: its value may be zero and it may be marked optimistic.
\* The transfer dialogs run as above over such stores.
SpendStores ==
  { [ i \in 1..MaxSpendNotes |->
        [txHash |-> MaxSpendNotes + 1 - i, value |-> v[i], storedAt |-> 0,
         status |-> st[i]] ]
      : v \in [1..MaxSpendNotes -> {0, MaxSpendValue}],
        st \in [1..MaxSpendNotes -> {"confirmed", "optimistic"}] }

InitSpend ==
  /\ storedNotes \in SpendStores
  /\ pendingTransfers = << >>
  /\ now = 0
  /\ nextTx = Len(storedNotes) + 1
  /\ prover = "none"
  /\ nullified = {}
  /\ xfer = [p \in Procs |-> IdleFrame]
  /\ selAvail = << >>
  /\ selAmount = 0
  /\ selResult = Null
  /\ selDone = FALSE
  /\ storeOp = NoCall
  /\ PollIdle
  /\ AuxIdle

SpecSpend == InitSpend /\ [][Next]_vars

\* ------------------------------------------- transfers that are driven on
\* Every awaited call settles: the circuit download, initialize(),
\* generateProof(), fetch, the two body reads and the upload; a settled
\* promise's continuation (a microtask) always runs.
EveryCallSettles ==
  /\ WF_vars(ProverLoaded)
  /\ \A p \in Procs :
       /\ WF_vars(InitDone(p))
       /\ WF_vars(ProofDone(p))
       /\ WF_vars(FetchDone(p))
       /\ WF_vars(ErrorBodyDone(p))
       /\ WF_vars(BodyDone(p))
       /\ WF_vars(UploadDone(p))
       /\ WF_vars(UpdateStore(p))
       /\ WF_vars(ShowError(p))

SpecLive == InitSpend /\ [][Next]_vars /\ EveryCallSettles

\* -------------------------- TransferService: notes of several contracts
\* The first steps of executeTransfer, selection and buildSendTransaction,
\* over available notes of one or of different contracts.
MixInputs ==
  UNION { { [ i \in 1..n |-> [txHash |-> i, value |-> v[i], contract |-> c[i]] ]
            : v \in [1..n -> 1..MaxMixValue], c \in [1..n -> 1..MaxContracts] }
          : n \in 0..MaxMixNotes }

InitMix ==
  /\ storedNotes = << >>
  /\ pendingTransfers = << >>
  /\ now = 0
  /\ nextTx = 1
  /\ prover = "none"
  /\ nullified = {}
  /\ xfer = [p \in Procs |-> IdleFrame]
  /\ selAvail \in MixInputs
  /\ selAmount \in 1..MaxMixAmount
  /\ selResult = Null
  /\ selDone = FALSE
  /\ storeOp = NoCall
  /\ PollIdle
  /\ AuxIdle

\* selectNotesForTransfer, which throws on null, then buildSendTransaction.
SelectAndBuild ==
  /\ ~selDone
  /\ selResult' = selectNotesForTransfer(selAvail, selAmount)
  /\ selTx' = IF selResult' = Null THEN NoTx
              ELSE buildSendTransaction(selResult', selAmount)
  /\ selDone' = TRUE
  /\ UNCHANGED << mainVars, selAvail, selAmount, storeVars, pollVars,
                  bucketVars, modal, blobCall, proverSvc, slicer >>

NextMix == SelectAndBuild

SpecMix == InitMix /\ [][NextMix]_vars

\* ----------------------------------- noteStorage.ts: pending, call by call
\* The pending-transfer functions of noteStorage.ts called in any order by
\* one owner while the clock advances.
StoreHashLists ==
  { << a >> : a \in 1..MaxStoreHash }
    \cup { pr \in (1..MaxStoreHash) \X (1..MaxStoreHash) : pr[1] < pr[2] }

cleanupExpiredPending(pending, t) == readPendingTransfers(pending, t)

\* The owner holds one note for each txHash up to `last`, newest first.
StoreUpTo(last) ==
  [ i \in 1..last |-> [txHash |-> last + 1 - i, value |-> 1, storedAt |-> 0] ]

InitStore ==
  /\ storedNotes \in { StoreUpTo(MaxStoreHash - 1), StoreUpTo(MaxStoreHash) }
  /\ pendingTransfers = << >>
  /\ now = 0
  /\ nextTx = 1
  /\ prover = "none"
  /\ nullified = {}
  /\ xfer = [p \in Procs |-> IdleFrame]
  /\ selAvail = << >>
  /\ selAmount = 0
  /\ selResult = Null
  /\ selDone = FALSE
  /\ storeOp = NoCall
  /\ PollIdle
  /\ AuxIdle

StoreTick ==
  /\ now + StoreTickStep <= MaxStoreTime
  /\ now' = now + StoreTickStep
  /\ storeOp' = [op |-> "clock", hashes |-> << >>, ret |-> {}]
  /\ UNCHANGED << storedNotes, pendingTransfers, StoreFrame >>

MarkPending ==
  \E hs \in StoreHashLists :
    /\ Len(pendingTransfers) < MaxPending
    /\ pendingTransfers' = markNotesPending(pendingTransfers, now, hs)
    /\ storeOp' = [op |-> "markNotesPending", hashes |-> hs, ret |-> {}]
    /\ UNCHANGED << storedNotes, now, StoreFrame >>

ClearPending ==
  \E hs \in StoreHashLists :
    /\ pendingTransfers' = clearPendingNotes(pendingTransfers, now, hs)
    /\ storeOp' = [op |-> "clearPendingNotes", hashes |-> hs, ret |-> {}]
    /\ UNCHANGED << storedNotes, now, StoreFrame >>

\* getPendingNoteHashes reads through the expiry filter and returns the set;
\* it has no call of writePendingTransfers.
PendingHashes ==
  /\ storeOp' = [op |-> "getPendingNoteHashes", hashes |-> << >>,
                 ret |-> getPendingNoteHashes(pendingTransfers, now)]
  /\ UNCHANGED << storedNotes, pendingTransfers, now, StoreFrame >>

CleanupExpired ==
  /\ pendingTransfers' = cleanupExpiredPending(pendingTransfers, now)
  /\ storeOp' = [op |-> "cleanupExpiredPending", hashes |-> << >>, ret |-> {}]
  /\ UNCHANGED << storedNotes, now, StoreFrame >>

NextStore ==
  \/ StoreTick
  \/ MarkPending
  \/ ClearPending
  \/ PendingHashes
  \/ CleanupExpired

SpecStore == InitStore /\ [][NextStore]_vars

\* ------------------------- useEncryptedNotes and EncryptedNoteService
\* StoredNote.txHash of an ingested record: `encrypted:${note.id}`.
EncryptedTxHash(id) == << "encrypted", id >>

\* Math.floor(Date.now() / 1000)
Seconds(t) == t \div 1000

\* Relay fetch with since=<watermark>: the records of the owner's tag that
\* are not deleted and newer than the watermark, by id.
RelayVisible(rel, since) ==
  { id \in 1..Len(rel) : ~rel[id].deleted /\ rel[id].storedAt > since }

RECURSIVE SeqOfIds(_)
SeqOfIds(ids) ==
  IF ids = {} THEN << >>
  ELSE LET m == MinOf(ids) IN << m >> \o SeqOfIds(ids \ {m})

\* The relay answers with all visible records, or with their first ones and
\* has_more = true.
RelayBatches(rel, since) ==
  LET all == SeqOfIds(RelayVisible(rel, since))
  IN  { SubSeq(all, 1, n) : n \in (IF all = << >> THEN {0} ELSE 1..Len(all)) }

\* A fetchNotes call of the hook up to its first await: the relay request of
\* processNotes is in flight.
NewPass(inst, origin, since) ==
  [inst |-> inst, origin |-> origin, since |-> since, pc |-> "fetching",
   batch |-> << >>, idx |-> 0, decrypted |-> << >>, failedCount |-> 0]

\* A fetchNotes call that has returned: what it fetched and how it ended.
EndedPass(pass, outcome) ==
  [batch |-> pass.batch, decrypted |-> pass.decrypted, outcome |-> outcome]

\* The calls in progress without the k-th one.
Without(running, k) ==
  SubSeq(running, 1, k - 1) \o SubSeq(running, k + 1, Len(running))

\* isMounted.current as seen by a call started in the instance pass.inst.
MountedFor(pass, h) == h.isMounted /\ h.inst = pass.inst

\* processNotes: the for loop from record idx + 1 up to the next await (a
\* DELETE request in flight) or to the return.
RECURSIVE processNotes_StopAtFailure(_, _)
processNotes_StopAtFailure(pass, rel) ==
  LET i == pass.idx + 1
  IN  IF i > Len(pass.batch)
        THEN [pass |-> [pass EXCEPT !.pc = "returned"], relay |-> rel]
      ELSE IF rel[pass.batch[i]].decryptable
        THEN [pass |-> [pass EXCEPT !.idx = i, !.pc = "deleting",
                                    !.decrypted = Append(@, pass.batch[i])],
              relay |-> [rel EXCEPT ![pass.batch[i]].deleteSent = TRUE]]
      ELSE [pass |-> [pass EXCEPT !.idx = i, !.failedCount = @ + 1,
                                  !.pc = "returned"],
            relay |-> rel]

RECURSIVE processNotes(_, _)
processNotes(pass, rel) ==
  LET i == pass.idx + 1
  IN  IF i > Len(pass.batch)
        THEN [pass |-> [pass EXCEPT !.pc = "returned"], relay |-> rel]
      ELSE IF rel[pass.batch[i]].decryptable
        THEN [pass |-> [pass EXCEPT !.idx = i, !.pc = "deleting",
                                    !.decrypted = Append(@, pass.batch[i])],
              relay |-> [rel EXCEPT ![pass.batch[i]].deleteSent = TRUE]]
      ELSE processNotes([pass EXCEPT !.idx = i, !.failedCount = @ + 1], rel)

\* fetchNotes of the hook, lines 169-177: one addStoredNote per decrypted
\* record, in the order of the batch.
RECURSIVE StoreDecrypted(_, _, _)
StoreDecrypted(store, rel, decrypted) ==
  IF decrypted = << >> THEN store
  ELSE StoreDecrypted(
         addStoredNote(store, [txHash |-> EncryptedTxHash(Head(decrypted)),
                               value |-> 1,
                               storedAt |-> rel[Head(decrypted)].storedAt * 1000]),
         rel, Tail(decrypted))

\* scheduleNextPoll in the finally of a timer pass.
Reschedule(pass, h) ==
  IF pass.origin = "timer" /\ MountedFor(pass, h)
    THEN [h EXCEPT !.timer = TRUE] ELSE h

\* fetchNotes of the hook after processNotes has resolved.
FetchNotesResolved(pass, h, store, saved, rel, t) ==
  IF ~MountedFor(pass, h)
    THEN [hook |-> h, storedNotes |-> store, savedLastFetch |-> saved,
          outcome |-> "unmounted"]
    ELSE [hook |-> Reschedule(pass, [h EXCEPT !.lastFetch = Seconds(t),
                                              !.isPolling = FALSE]),
          storedNotes |-> StoreDecrypted(store, rel, pass.decrypted),
          savedLastFetch |-> Seconds(t),
          outcome |-> "ingested"]

\* fetchNotes of the hook after processNotes has rejected.
FetchNotesRejected_SavesWatermark(pass, h, store, saved, rel, t) ==
  [hook |-> Reschedule(pass, h), storedNotes |-> store,
   savedLastFetch |-> Seconds(t), outcome |-> "fetch_failed"]

FetchNotesRejected(pass, h, store, saved, rel, t) ==
  [hook |-> Reschedule(pass, IF MountedFor(pass, h)
                               THEN [h EXCEPT !.isPolling = FALSE] ELSE h),
   storedNotes |-> store, savedLastFetch |-> saved,
   outcome |-> "fetch_failed"]

InitPoll ==
  /\ storedNotes = << >>
  /\ pendingTransfers = << >>
  /\ now = 0
  /\ nextTx = 1
  /\ prover = "none"
  /\ nullified = {}
  /\ xfer = [p \in Procs |-> IdleFrame]
  /\ selAvail = << >>
  /\ selAmount = 0
  /\ selResult = Null
  /\ selDone = FALSE
  /\ storeOp = NoCall
  /\ PollIdle
  /\ AuxIdle

PollFrame == << pendingTransfers, nextTx, prover, nullified, xfer,
               selVars, storeVars, auxVars >>

InFlight == 1..Len(passes)

\* fetchNotes is called: processNotes sends its request.
Started(pass) ==
  /\ cycles.started < MaxPasses
  /\ passes' = Append(passes, pass)
  /\ cycles' = [cycles EXCEPT !.started = @ + 1]

\* The k-th call in progress returns.
Ended(k, pass, outcome) ==
  /\ passes' = Without(passes, k)
  /\ cycles' = [cycles EXCEPT !.last = EndedPass(pass, outcome)]

PollTick ==
  /\ Seconds(now) < MaxPollTime
  /\ now' = now + 1000
  /\ UNCHANGED << storedNotes, pollVars, PollFrame >>

\* A sender's uploadNote is accepted by the relay for the owner's tag.
RelayAccept ==
  \E ok \in BOOLEAN :
    /\ Len(relay) < MaxRecords
    /\ relay' = Append(relay, [storedAt |-> Seconds(now), decryptable |-> ok,
                               deleted |-> FALSE, deleteSent |-> FALSE])
    /\ UNCHANGED << storedNotes, now, savedLastFetch, hook, passes, cycles,
                    PollFrame >>

\* The component renders the hook with a key pair: state from
\* loadLastFetch, then the polling effect (initial fetch, first timer).
MountHook ==
  /\ ~hook.live
  /\ hook.inst < MaxMounts
  /\ hook' = [live |-> TRUE, inst |-> hook.inst + 1, isMounted |-> TRUE,
              timer |-> TRUE, lastFetch |-> savedLastFetch,
              effectSince |-> savedLastFetch, isPolling |-> TRUE]
  /\ Started(NewPass(hook.inst + 1, "initial", savedLastFetch))
  /\ UNCHANGED << storedNotes, now, relay, savedLastFetch, PollFrame >>

\* The component goes away: the effect's cleanup.
UnmountHook ==
  /\ hook.live
  /\ hook' = [UnmountedHook EXCEPT !.inst = hook.inst]
  /\ UNCHANGED << storedNotes, now, relay, savedLastFetch, passes, cycles,
                  PollFrame >>

\* The timeout of scheduleNextPoll fires: fetchNotes of the render in which
\* the effect ran.
TimerFires ==
  /\ hook.timer
  /\ hook' = [hook EXCEPT !.timer = FALSE, !.isPolling = TRUE]
  /\ Started(NewPass(hook.inst, "timer", hook.effectSince))
  /\ UNCHANGED << storedNotes, now, relay, savedLastFetch, PollFrame >>

FetchNow ==
  /\ hook.live
  /\ ~hook.isPolling
  /\ hook' = [hook EXCEPT !.isPolling = TRUE]
  /\ Started(NewPass(hook.inst, "fetchNow", hook.lastFetch))
  /\ UNCHANGED << storedNotes, now, relay, savedLastFetch, PollFrame >>

\* processNotes has reached its next await or has returned; in the second
\* case the hook's fetchNotes runs to its end in the same turn.
Proceed(k, r) ==
  IF r.pass.pc = "returned"
    THEN LET f == FetchNotesResolved(r.pass, hook, storedNotes,
                                     savedLastFetch, r.relay, now)
         IN  /\ hook' = f.hook
             /\ storedNotes' = f.storedNotes
             /\ savedLastFetch' = f.savedLastFetch
             /\ Ended(k, r.pass, f.outcome)
             /\ relay' = r.relay
    ELSE /\ passes' = [passes EXCEPT ![k] = r.pass]
         /\ relay' = r.relay
         /\ UNCHANGED << hook, storedNotes, savedLastFetch, cycles >>

\* The relay's answer to GET /api/notes/<tag> arrives.
FetchResponds(k) ==
  /\ passes[k].pc = "fetching"
  /\ \E batch \in RelayBatches(relay, passes[k].since) :
       Proceed(k, processNotes([passes[k] EXCEPT !.batch = batch], relay))
  /\ UNCHANGED << now, PollFrame >>

\* The request fails: network error or non-OK status.
FetchFails(k) ==
  /\ passes[k].pc = "fetching"
  /\ LET f == FetchNotesRejected(passes[k], hook, storedNotes,
                                 savedLastFetch, relay, now)
     IN  /\ hook' = f.hook
         /\ storedNotes' = f.storedNotes
         /\ savedLastFetch' = f.savedLastFetch
         /\ Ended(k, passes[k], f.outcome)
  /\ UNCHANGED << now, relay, PollFrame >>

\* The relay's answer to DELETE /api/notes/<tag>/<id> arrives: the record
\* is gone, or the request failed and processNotes only logs it.
DeleteResponds(k) ==
  /\ passes[k].pc = "deleting"
  /\ \E ok \in BOOLEAN :
       LET id == passes[k].batch[passes[k].idx]
           rel == IF ok THEN [relay EXCEPT ![id].deleted = TRUE] ELSE relay
       IN  Proceed(k, processNotes(passes[k], rel))
  /\ UNCHANGED << now, PollFrame >>

NextPoll ==
  \/ PollTick
  \/ RelayAccept
  \/ MountHook
  \/ UnmountHook
  \/ TimerFires
  \/ FetchNow
  \/ \E k \in InFlight : FetchResponds(k)
  \/ \E k \in InFlight : FetchFails(k)
  \/ \E k \in InFlight : DeleteResponds(k)

SpecPoll == InitPoll /\ [][NextPoll]_vars

\* ================================================================ claims
ActivePending == readPendingTransfers(pendingTransfers, now)

EntriesWith(pending, hashes) ==
  { i \in 1..Len(pending) : Range(pending[i].spentNoteHashes) \cap hashes # {} }

IsPrefix(s, t) == Len(s) <= Len(t) /\ \A i \in 1..Len(s) : s[i] = t[i]

\* A step of dialog p that enters executeTransfer.
Entered(p) == xfer[p].pc = "open" /\ xfer'[p].pc \notin {"open", "input_error"}

\* C1: no note txHash is listed in more than one unexpired PendingTransfer
\* entry of the owner.
C1_HashInAtMostOneActiveEntry ==
  \A i, j \in 1..Len(ActivePending) :
    i # j => Range(ActivePending[i].spentNoteHashes)
               \cap Range(ActivePending[j].spentNoteHashes) = {}

\* C2: executeTransfer whose selected inputs include a hash that is already
\* pending fails with PendingConflict, adds no PendingTransfer entry and
\* sends nothing to the prover or the settlement backend.
C2_PendingConflictRejected ==
  [][ \A p \in Procs :
        LET selection == selectNotesForTransfer(xfer[p].availableNotes, xfer'[p].amount)
        IN  ( /\ Entered(p)
              /\ xfer'[p].error # "CallbackError"
              /\ selection # Null
              /\ Range(SpentNoteHashes(selection))
                   \cap getPendingNoteHashes(pendingTransfers, now) # {} )
            => ( /\ xfer'[p].pc = "rejected"
                 /\ xfer'[p].error = "PendingConflict"
                 /\ Len(pendingTransfers') <= Len(pendingTransfers)
                 /\ xfer'[p].proverCalls = 0
                 /\ xfer'[p].backendCalls = 0 ) ]_vars

\* C3: when executeTransfer fails after markPending and before the backend
\* reported success, then when the rejection reaches the caller no pending
\* entry holds any of its input hashes and its stored input notes are
\* returned by getSpendableNotes again.
C3_FailureReleasesReservation ==
  \A p \in Procs :
    (xfer[p].pc = "rejected" /\ xfer[p].marked /\ ~xfer[p].settled)
    => LET h == Range(xfer[p].spentNoteHashes)
           spendable == Hashes(getSpendableNotes(storedNotes, pendingTransfers, now))
       IN  /\ EntriesWith(pendingTransfers, h) = {}
           /\ (h \cap Hashes(storedNotes)) \subseteq spendable

C3_Witness ==
  \E p \in Procs :
    /\ xfer[p].pc = "rejected"
    /\ xfer[p].marked
    /\ ~xfer[p].settled
    /\ xfer[p].error \in {"ProofAssemblyError", "ProverInitError", "ProofError",
                          "NetworkError", "SettlementRejected"}
    /\ xfer[p].spentNoteHashes # << >>
    /\ Range(xfer[p].spentNoteHashes)
         \subseteq Hashes(getSpendableNotes(storedNotes, pendingTransfers, now))

\* C4: the notes removed from the store after a successful transfer are
\* exactly the non-padding notes selected as inputs.
C4_RemovedAreExactlySelected ==
  [][ \A p \in Procs :
        (xfer[p].pc = "resolved" /\ xfer'[p].pc = "success")
        => /\ Hashes(storedNotes) \ Hashes(storedNotes')
                = Range(xfer[p].spentNoteHashes) \cap Hashes(storedNotes)
           /\ Range(xfer[p].spentNoteHashes) \cap Hashes(storedNotes') = {} ]_vars

\* C5: after a successful transfer with changeAmount > 0 a change note of
\* value changeAmount is in the store, and the stored total went down by
\* exactly amount.
C5_ChangeNoteStored ==
  [][ \A p \in Procs :
        ( /\ xfer[p].pc = "resolved"
          /\ xfer'[p].pc = "success"
          /\ xfer[p].selection.changeAmount > 0 )
        => /\ \E n \in Range(storedNotes') :
                /\ n.txHash = xfer[p].result.tx_hash
                /\ n.value = xfer[p].selection.changeAmount
           /\ SumValues(storedNotes') = SumValues(storedNotes) - xfer[p].amount ]_vars

\* C6: the stages passed to onProgress form a prefix of the stage order, and
\* complete is reported only after the backend accepted the transfer.
C6_StagesArePrefix ==
  \A p \in Procs :
    /\ IsPrefix(xfer[p].stages, StageOrder)
    /\ "complete" \in Range(xfer[p].stages) => xfer[p].settled

C6_Witness ==
  \E p \in Procs : xfer[p].stages = StageOrder /\ xfer[p].pc = "resolved"

\* C7: when the backend accepted the transfer and the relay upload failed,
\* the reservation of the inputs is released and executeTransfer resolves
\* with the settlement result (unless the onProgress callback itself threw).
C7_UploadFailureDoesNotReject ==
  [][ \A p \in Procs :
        ( /\ xfer[p].pc = "await_upload"
          /\ xfer'[p].pc # "await_upload"
          /\ xfer'[p].uploadFailed )
        => /\ xfer[p].settled
           /\ EntriesWith(pendingTransfers', Range(xfer[p].spentNoteHashes)) = {}
           /\ xfer'[p].error # "CallbackError"
                => /\ xfer'[p].pc = "resolved"
                   /\ xfer'[p].error = "none"
                   /\ xfer'[p].result = xfer[p].result
                   /\ xfer'[p].result.tx_hash # EmptyHash ]_vars

C7_Witness ==
  \E p \in Procs :
    /\ xfer[p].pc = "resolved"
    /\ xfer[p].settled
    /\ xfer[p].uploadFailed
    /\ xfer[p].relayCalls = 1

\* C8: when selection finds nothing, executeTransfer rejects with an
\* insufficient-balance error; no pending entry is added, the store is
\* unchanged and no request goes to prover, backend or relay.
C8_InsufficientBalanceNoEffect ==
  [][ \A p \in Procs :
        ( /\ Entered(p)
          /\ xfer'[p].error # "CallbackError"
          /\ selectNotesForTransfer(xfer[p].availableNotes, xfer'[p].amount) = Null )
        => /\ xfer'[p].pc = "rejected"
           /\ xfer'[p].error = "InsufficientBalance"
           /\ ~xfer'[p].marked
           /\ pendingTransfers' = pendingTransfers
           /\ storedNotes' = storedNotes
           /\ prover' = prover
           /\ xfer'[p].proverCalls = 0
           /\ xfer'[p].backendCalls = 0
           /\ xfer'[p].relayCalls = 0 ]_vars

C8_Witness ==
  \E p \in Procs :
    /\ xfer[p].pc = "rejected"
    /\ xfer[p].error = "InsufficientBalance"
    /\ SumValues(xfer[p].availableNotes) >= xfer[p].amount
    /\ Len(xfer[p].availableNotes) >= 3

\* C9: when some available note has value >= amount, the selection is the
\* note of minimum value among those plus a padding input, totalInput is its
\* value and changeAmount is totalInput - amount.
SufficientValues == { selAvail[i].value : i \in { k \in 1..Len(selAvail) :
                                                   selAvail[k].value >= selAmount } }

C9_SmallestSufficientSingle ==
  (selDone /\ SufficientValues # {})
  => /\ selResult # Null
     /\ selResult.selectedNotes[1] \in Range(selAvail)
     /\ selResult.selectedNotes[1].value = MinOf(SufficientValues)
     /\ selResult.selectedNotes[2] = createPaddingSpendableNote
     /\ selResult.totalInput = MinOf(SufficientValues)
     /\ selResult.changeAmount = selResult.totalInput - selAmount

C9_Witness ==
  /\ selDone
  /\ Len(selAvail) = 3
  /\ selAvail[1].value >= selAmount
  /\ selResult # Null
  /\ selResult.selectedNotes[1].value < selAvail[1].value

\* C10: when no single note suffices, the selection is the first pair in
\* ascending-value order whose sum is >= amount, two distinct available
\* notes; it is Null exactly when no two notes reach the amount.
SufficientPairs ==
  { pr \in Range(selAvail) \X Range(selAvail) :
      pr[1].txHash # pr[2].txHash /\ pr[1].value + pr[2].value >= selAmount }

C10_FirstAscendingPair ==
  (selDone /\ SufficientValues = {})
  => /\ selResult = Null <=> SufficientPairs = {}
     /\ selResult # Null =>
          LET a == selResult.selectedNotes[1]
              b == selResult.selectedNotes[2]
          IN  /\ a \in Range(selAvail) /\ b \in Range(selAvail)
              /\ a.txHash # b.txHash
              /\ a.value <= b.value
              /\ selResult.totalInput = a.value + b.value
              /\ selResult.totalInput >= selAmount
              /\ selResult.changeAmount = selResult.totalInput - selAmount
              /\ \A pr \in SufficientPairs : a.value <= pr[1].value
              /\ \A pr \in SufficientPairs :
                   pr[1].txHash = a.txHash => b.value <= pr[2].value

C10_Witness ==
  /\ selDone
  /\ SufficientValues = {}
  /\ selResult # Null
  /\ Len(selAvail) >= 3
  /\ \E i, j \in 1..Len(selAvail) :
       i # j /\ selAvail[i].value + selAvail[j].value < selAmount

\* C35: a returned selection has the smallest sufficient total: no single
\* available note and no two distinct available notes have a total that is
\* >= amount and smaller than totalInput.
C35_SmallestSufficientCombination ==
  (selDone /\ selResult # Null) =>
    /\ \A n \in SufficientValues : n >= selResult.totalInput
    /\ \A pr \in SufficientPairs :
         pr[1].value + pr[2].value >= selResult.totalInput


\* ------------------------------------------------------- storage claims
Expired(e, t) == t - e.timestamp >= PENDING_TRANSFER_TIMEOUT_MS

Touches(e, hashes) == Range(e.spentNoteHashes) \cap hashes # {}

\* C11: adding a note whose txHash is already stored leaves the list as it
\* was, so every txHash occurs at most once in the owner's store.
C11_TxHashStoredOnce ==
  \A i, j \in 1..Len(storedNotes) :
    storedNotes[i].txHash = storedNotes[j].txHash => i = j

\* C18: a clearPendingNotes call removes every unexpired entry that lists
\* one of the given hashes, keeps every unexpired entry that lists none of
\* them, adds nothing, and leaves the Note Store alone.
C18_ClearRemovesTouchedEntries ==
  [][ storeOp'.op = "clearPendingNotes" =>
        LET given == Range(storeOp'.hashes)
        IN  /\ \A e \in Range(pendingTransfers) :
                 ~Expired(e, now) =>
                   (e \in Range(pendingTransfers') <=> ~Touches(e, given))
            /\ Range(pendingTransfers') \subseteq Range(pendingTransfers)
            /\ storedNotes' = storedNotes ]_vars

\* An entry of two hashes is removed by a call that names one of them while
\* an untouched unexpired entry stays.
C18_Witness ==
  /\ storeOp.op = "clearPendingNotes"
  /\ Len(storeOp.hashes) = 1
  /\ Len(pendingTransfers) = 1
  /\ ~Touches(pendingTransfers[1], Range(storeOp.hashes))
  /\ ~Expired(pendingTransfers[1], now)
  /\ Len(storedNotes) > 0

\* C19: after getPendingNoteHashes returns, the persisted pending-transfer
\* list holds no entry older than the timeout.
C19_ReadPersistsExpiryFilter ==
  [][ storeOp'.op = "getPendingNoteHashes" =>
        \A e \in Range(pendingTransfers') : ~Expired(e, now') ]_vars

\* The stored notes whose txHash is h and that toSpendableNote keeps.
SpendableWith(h) ==
  { n \in Range(getSpendableNotes(storedNotes, pendingTransfers, now)) :
      n.txHash = h }

\* C20: an entry whose age has reached the timeout adds nothing to the
\* pending hashes, so a stored note listed only in such entries is spendable
\* with no clearPendingNotes call; an entry younger than the timeout keeps
\* its hashes pending and its notes unspendable, and stays persisted until a
\* clearPendingNotes call names one of its hashes.
C20_StateOfExpiry ==
  /\ \A e \in Range(pendingTransfers) :
       ~Expired(e, now) =>
         \A h \in Range(e.spentNoteHashes) :
           /\ h \in getPendingNoteHashes(pendingTransfers, now)
           /\ SpendableWith(h) = {}
  /\ \A h \in 1..MaxStoreHash :
       (\A e \in Range(pendingTransfers) :
           h \in Range(e.spentNoteHashes) => Expired(e, now))
         => /\ h \notin getPendingNoteHashes(pendingTransfers, now)
            /\ (h \in Hashes(storedNotes) => SpendableWith(h) # {})

C20_ExpiryReleasesNotes ==
  /\ []C20_StateOfExpiry
  /\ [][ \A e \in Range(pendingTransfers) :
           (/\ ~Expired(e, now')
            /\ ~(/\ storeOp'.op = "clearPendingNotes"
                 /\ Touches(e, Range(storeOp'.hashes))))
             => e \in Range(pendingTransfers') ]_vars

\* A stored note is listed in an expired entry that is still persisted, no
\* clearPendingNotes call was made, and the note is spendable, while another
\* note is held by a younger entry.
C20_Witness ==
  /\ storeOp.op = "getPendingNoteHashes"
  /\ \E e \in Range(pendingTransfers) :
       /\ Expired(e, now)
       /\ \E h \in Range(e.spentNoteHashes) : SpendableWith(h) # {}
  /\ \E e \in Range(pendingTransfers) :
       /\ ~Expired(e, now)
       /\ Range(e.spentNoteHashes) \cap Hashes(storedNotes) # {}
  /\ storeOp.ret # {}

\* C21: a clearPendingNotes call that repeats the call before it, or whose
\* hashes are listed by no unexpired entry (never reserved, released, or
\* expired), leaves the list of unexpired entries as it was, and the
\* persisted list too when it held no expired entry.
C21_ClearPendingIdempotent ==
  [][ storeOp'.op = "clearPendingNotes" =>
        LET given      == Range(storeOp'.hashes)
            repeated   == /\ storeOp.op = "clearPendingNotes"
                          /\ Range(storeOp.hashes) = given
            unreserved == \A e \in Range(pendingTransfers) :
                            Touches(e, given) => Expired(e, now)
        IN  (repeated \/ unreserved) =>
              /\ readPendingTransfers(pendingTransfers', now')
                   = readPendingTransfers(pendingTransfers, now)
              /\ (\A e \in Range(pendingTransfers) : ~Expired(e, now))
                   => pendingTransfers' = pendingTransfers ]_vars

\* A clearPendingNotes call has returned and two unexpired entries that list
\* none of its hashes are persisted: the same call made again is the
\* repeated call of the claim.
C21_Witness ==
  /\ storeOp.op = "clearPendingNotes"
  /\ Len(pendingTransfers) = 2
  /\ \A e \in Range(pendingTransfers) :
       ~Expired(e, now) /\ ~Touches(e, Range(storeOp.hashes))
  /\ now > 0

\* --------------------------------------------------------- bucket claims
\* The legacy entries tagged with the owner.
TaggedWith(k) ==
  SelectSeq(localStorage.legacy,
            LAMBDA e : "player" \in DOMAIN e /\ normalizePlayerKey(e.player) = k)

\* list(owner) before the step.
ListOf(k) ==
  IF localStorage.buckets[k].present
    THEN localStorage.buckets[k].notes ELSE TaggedWith(k)

\* C23: a call of addStoredNote, setStoredNotes or clearStoredNotes, or of
\* replaceStoredNote that finds its target, calls every listener subscribed
\* for the normalized owner once, with the list it has written, and calls no
\* other listener; a listener is in an owner's set only from a subscribe call
\* for that owner until its unsubscribe function runs.
C23_ListenersNotifiedOnce ==
  [][ LET key == normalizePlayerKey(storeOp'.player)
          mutation ==
            \/ storeOp'.op \in {"addStoredNote", "setStoredNotes", "clearStoredNotes"}
            \/ /\ storeOp'.op = "replaceStoredNote"
               /\ storeOp'.ret[1] \in Hashes(ListOf(key))
      IN  /\ (key # << >> /\ mutation) =>
                \A l \in 1..MaxListeners :
                  delivered'[l] =
                    IF l \in listeners[key]
                      THEN << localStorage'.buckets[key].notes >> ELSE << >>
          /\ (key # << >> /\ storeOp'.op = "unsubscribe") =>
                storeOp'.ret[1] \notin listeners'[key]
          /\ \A k \in PlayerKeys :
               \A l \in listeners'[k] \ listeners[k] :
                 /\ storeOp'.op = "subscribeToStoredNotes"
                 /\ key = k
                 /\ storeOp'.ret = << l >> ]_vars

\* A note was added for the first owner while listener 1 was subscribed for
\* that owner and listener 2 for the other one: listener 1 got the new list
\* once, listener 2 was not called.
C23_Witness ==
  /\ storeOp.op = "addStoredNote"
  /\ \E k \in PlayerKeys :
       /\ k = normalizePlayerKey(storeOp.player)
       /\ listeners[k] = {1}
       /\ \E other \in PlayerKeys \ {k} : listeners[other] = {2}
       /\ delivered[1] = << localStorage.buckets[k].notes >>
       /\ Len(localStorage.buckets[k].notes) = MaxBucketNotes
  /\ delivered[2] = << >>

\* C24: an owner's bucket, once written, stays written, and a read then
\* returns its content and writes nothing; a read that finds no bucket and
\* finds legacy entries tagged with the owner writes exactly these to the
\* owner's bucket.  So the legacy entries are copied at most once and are not
\* returned again after clearStoredNotes or setStoredNotes(owner, []).
C24_LegacyMigratedOnce ==
  [][ \A k \in PlayerKeys :
        LET bucket == localStorage.buckets[k]
            reads  == /\ storeOp'.op = "getStoredNotes"
                      /\ normalizePlayerKey(storeOp'.player) = k
        IN  /\ bucket.present => localStorage'.buckets[k].present
            /\ (bucket.present /\ reads) =>
                 /\ storeOp'.ret = bucket.notes
                 /\ localStorage' = localStorage
            /\ (~bucket.present /\ reads /\ TaggedWith(k) # << >>) =>
                 /\ storeOp'.ret = TaggedWith(k)
                 /\ localStorage'.buckets[k] =
                      [present |-> TRUE, notes |-> TaggedWith(k)] ]_vars

\* The owner's bucket was emptied while the legacy bucket still holds an
\* entry tagged with the owner, and a read has returned the empty list.
C24_Witness ==
  /\ storeOp.op = "getStoredNotes"
  /\ storeOp.ret = << >>
  /\ \E k \in PlayerKeys :
       /\ k = normalizePlayerKey(storeOp.player)
       /\ localStorage.buckets[k] = [present |-> TRUE, notes |-> << >>]
       /\ TaggedWith(k) # << >>

\* --------------------------------------------------------- import claims
\* The step in which processArchive finishes reading the dropped file.
ImportEnds == modal.isUploading /\ ~modal'.isUploading

\* C25: when a record of the archive is not of the StoredNote shape, or the
\* archive declares an owner that differs, after normalization, from the
\* session's, the import ends with a message and the owner's store is what
\* it was: none of the archive's notes is written.
C25_RejectedImportLeavesStore ==
  [][ ImportEnds =>
        LET file == modal.file
            shapeFails ==
              \E i \in 1..Len(file.notes) :
                \/ file.notes[i].typeof.txHash # "string"
                \/ ~file.notes[i].hasNote
                \/ file.notes[i].typeof.storedAt # "number"
                \/ file.notes[i].typeof.player # "string"
            ownerDiffers ==
              /\ file.content = "object"
              /\ file.typeofPlayer = "string"
              /\ normalizePlayerKey(file.player) # << >>
              /\ normalizePlayerKey(file.player) # normalizePlayerKey(CurrentPlayer)
        IN  (shapeFails \/ ownerDiffers) =>
              /\ storedNotes' = storedNotes
              /\ modal'.error # "none" ]_vars

\* An archive of the session's owner with one well-formed and one malformed
\* record was read: the store, which is not empty, holds no note with the key
\* of the well-formed record.
C25_Witness ==
  /\ modal.open
  /\ ~modal.isUploading
  /\ modal.error = "unreadable"
  /\ modal.file.content = "object"
  /\ storedNotes # << >>
  /\ \E i, j \in 1..Len(modal.file.notes) :
       /\ ~isStoredNote(modal.file.notes[i])
       /\ isStoredNote(modal.file.notes[j])
       /\ \A k \in 1..Len(storedNotes) :
            createNoteKey(storedNotes[k]) # createNoteKey(modal.file.notes[j])

\* C26: when an import has written its merged list, no two notes of the
\* owner's store have the same key and the store is in non-increasing
\* storedAt order.
C26_MergedStoreHasUniqueKeys ==
  [][ (ImportEnds /\ modal'.error = "none") =>
        /\ \A i, j \in 1..Len(storedNotes') :
             createNoteKey(storedNotes'[i]) = createNoteKey(storedNotes'[j])
               => i = j
        /\ \A i, j \in 1..Len(storedNotes') :
             i < j => storedNotes'[i].storedAt >= storedNotes'[j].storedAt ]_vars

\* C37: an import that writes its merged list drops no stored note: every
\* note that was in the owner's store when the file was dropped is in the
\* store after the write.
C37_ImportKeepsStoredNotes ==
  [][ (ImportEnds /\ modal'.error = "none") =>
        \A i \in 1..Len(modal.atDrop) :
          modal.atDrop[i] \in Range(storedNotes') ]_vars

\* ----------------------------------------------------------- blob claims
\* The 32 bytes written by a string of 64 hex digits.
BytesOf(hex) == [ i \in 1..32 |-> 16 * hex[2 * i - 1] + hex[2 * i] ]

\* The k-th 32-byte word of the blob, k from 0.
WordAt(k) == SubSeq(blobCall.blob, 32 * k + 1, 32 * k + 32)

\* C27: the blob has 128 bytes; its words 0 and 1 are the commitments of
\* inputs 0 and 1, which are entries 0 and 1 of the commitments of the
\* circuit input map, and its words 2 and 3 are the nullifiers of inputs 0
\* and 1.
C27_BlobLayout ==
  blobCall.done =>
    /\ Len(blobCall.blob) = 128
    /\ \A i \in 1..2 :
         /\ WordAt(i - 1) = BytesOf(Tail(blobCall.commitments[i]))
         /\ Head(blobCall.commitments[i]) = "0x"
         /\ Len(blobCall.commitments[i]) = 65
         /\ WordAt(i + 1) =
              BytesOf(computeNullifier(blobCall.inputNotes[i].note.psi,
                                       blobCall.inputNotes[i].secret_key))

\* The prover input was built of two different notes that are hashed, with
\* different nullifiers: the four words of the blob differ from one another.
C27_Witness ==
  /\ blobCall.done
  /\ \A j, k \in 0..3 : j # k => WordAt(j) # WordAt(k)

\* C28: the commitment of an input note is all-zero exactly when the note is
\* the padding note, the note whose four fields are zero.
C28_ZeroCommitmentOnlyForPadding ==
  blobCall.done =>
    \A i \in 1..2 :
      Tail(blobCall.commitments[i]) = toHex64(0)
        <=> blobCall.inputNotes[i].note = NoteOf(0, 0, 0, 0)

\* --------------------------------------------------------- prover claims
\* The callers whose await of initialize() has not ended.
Awaiting == { c \in 1..MaxCallers : proverSvc.callers[c].pc = "awaiting" }

\* C29: the circuit is loaded at most once, and exactly once as soon as any
\* call was made before the prover was initialized; every caller that waits
\* waits on the one kept promise; a call made after the load has completed
\* starts no load and a generateProof call then waits for nothing.
C29_SingleFlight ==
  /\ [](/\ proverSvc.loads <= 1
        /\ (Awaiting # {} => proverSvc.loads = 1 /\ proverSvc.initPromise # "null")
        /\ (proverSvc.calls > 0 /\ proverSvc.loads = 0 => proverSvc.circuit # "null")
        /\ (proverSvc.circuit # "null" => proverSvc.initPromise = "fulfilled"))
  /\ [][ proverSvc.initPromise # "null" => proverSvc'.loads = proverSvc.loads ]_vars

\* Three calls, one of them a generateProof, overlap before the circuit has
\* arrived: one load is in flight and all three wait.
C29_Witness ==
  /\ Cardinality(Awaiting) = 3
  /\ \E c \in Awaiting : proverSvc.callers[c].method = "generateProof"
  /\ \E c \in Awaiting : proverSvc.callers[c].method = "initialize"
  /\ proverSvc.initPromise = "pending"
  /\ proverSvc.loads = 1

\* C38: a failed initialisation is never retried. Once the promise of the
\* first initialize() has rejected it stays the kept promise, no load is
\* started again and the circuit is never set; a caller of initialize() or
\* generateProof() can only start waiting on that promise, and a waiting
\* caller can only be rejected: nobody proves or returns.
C38_FailedInitNeverRetried ==
  /\ [](proverSvc.initPromise = "rejected" =>
          /\ proverSvc.loads = 1
          /\ proverSvc.circuit = "null"
          /\ \A c \in 1..MaxCallers :
               proverSvc.callers[c].pc \in {"idle", "awaiting", "rejected"})
  /\ [][ proverSvc.initPromise = "rejected" =>
           /\ proverSvc'.initPromise = "rejected"
           /\ proverSvc'.loads = proverSvc.loads
           /\ \A c \in 1..MaxCallers :
                proverSvc'.callers[c].pc # proverSvc.callers[c].pc =>
                  IF proverSvc.callers[c].pc = "awaiting"
                    THEN proverSvc'.callers[c].pc = "rejected"
                    ELSE proverSvc'.callers[c].pc = "awaiting" ]_vars

\* The load has failed; a caller whose first call was rejected has called
\* again, a generateProof and an initialize call among them, and all calls
\* have been rejected.
C38_Witness ==
  /\ proverSvc.initPromise = "rejected"
  /\ proverSvc.calls = MaxProverCalls
  /\ \A c \in 1..MaxCallers : proverSvc.callers[c].pc = "rejected"
  /\ \E c \in 1..MaxCallers : proverSvc.callers[c].method = "generateProof"
  /\ \E c \in 1..MaxCallers : proverSvc.callers[c].method = "initialize"

\* ----------------------------------------------------------- mutex claim
\* The calls that hold the lock: granted and not yet past the finally block.
Holders == { c \in 1..MaxSlicers : slicer.calls[c].pc \in {"acquired", "in_faucet"} }

Queued == { c \in 1..MaxSlicers : slicer.calls[c].pc = "queued" }

\* C39: at most one call holds the lock, and the lock is taken whenever a
\* call holds it or waits for it; the waiting calls are queued, and granted,
\* in the order of their acquire; per orange at most one call passes the
\* already-sliced check and at most one faucet request is submitted; a call
\* has released once when it has returned after an acquire, and not before.
C39_State ==
  /\ Cardinality(Holders) <= 1
  /\ (Holders # {} \/ Queued # {}) => slicer.locked
  /\ slicer.locked => Holders # {}
  /\ Range(slicer.queue) = Queued /\ Len(slicer.queue) = Cardinality(Queued)
  /\ \A i, j \in 1..Len(slicer.queue) :
       i < j => slicer.calls[slicer.queue[i]].ticket < slicer.calls[slicer.queue[j]].ticket
  /\ \A o \in 1..MaxOranges : slicer.passed[o] <= 1 /\ slicer.submitted[o] <= 1
  /\ \A c \in 1..MaxSlicers :
       /\ slicer.calls[c].pc = "done"
            => slicer.calls[c].releases = slicer.calls[c].acquires
       /\ slicer.calls[c].pc \in {"queued", "acquired", "in_faucet"}
            => slicer.calls[c].acquires = 1 /\ slicer.calls[c].releases = 0

C39_MutexExclusiveFifo ==
  /\ []C39_State
  /\ [][\A c \in 1..MaxSlicers :
          (slicer.calls[c].pc = "queued" /\ slicer'.calls[c].pc = "acquired")
            => \A d \in Queued : slicer.calls[c].ticket <= slicer.calls[d].ticket]_vars

\* Two calls for the same orange overlapped with a third one: the first has
\* passed the check and returned, the second was granted the lock after it
\* and has returned without passing, the third is waiting or holds the lock.
C39_Witness ==
  \E c, d, e \in 1..MaxSlicers :
    /\ c # d /\ d # e /\ c # e
    /\ slicer.calls[c].id = slicer.calls[d].id
    /\ slicer.calls[c].pc = "done" /\ slicer.calls[d].pc = "done"
    /\ slicer.calls[c].acquires = 1 /\ slicer.calls[d].acquires = 1
    /\ slicer.calls[c].found /\ slicer.calls[d].found
    /\ slicer.passed[slicer.calls[c].id] = 1
    /\ slicer.submitted[slicer.calls[c].id] = 1
    /\ slicer.calls[e].pc \in {"queued", "acquired", "in_faucet"}

\* -------------------------------------------------------- consumed notes
\* C36: once the backend has accepted a transfer, each of its input notes is
\* pending-reserved or no longer in the store, in every state in which no
\* continuation of a settled executeTransfer is still to run; stated for the
\* states in which no reservation can have timed out yet.
C36_ConsumedNeverSpendable ==
  (~ContinuationQueued /\ now < PENDING_TRANSFER_TIMEOUT_MS) =>
    \A h \in nullified :
      \/ h \in getPendingNoteHashes(pendingTransfers, now)
      \/ h \notin Hashes(storedNotes)

\* -------------------------------------------------------- spendable claims
\* C31: the notes a dialog is opened with are exactly the stored notes whose
\* txHash is not pending-reserved: one spendable note for each such stored
\* note, in store order, and none for a reserved one.
C31_SpendableIsStoredMinusPending ==
  [][\A p \in Procs :
       (xfer[p].pc = "idle" /\ xfer'[p].pc = "open") =>
         TxHashesOf(xfer'[p].availableNotes) =
           TxHashesOf(SelectSeq(storedNotes,
                        LAMBDA n : n.txHash \notin
                                     getPendingNoteHashes(pendingTransfers, now)))]_vars

\* C32: a padding note is never treated as spendable. No note of value zero
\* is among the notes a dialog offers; the padding input of a selection puts
\* no txHash into a PendingTransfer entry (a single-note selection reserves
\* the hash of its one note only); and no step removes a zero-value note
\* from the store.
C32_State ==
  /\ \A p \in Procs : \A i \in 1..Len(xfer[p].availableNotes) :
       xfer[p].availableNotes[i].value > 0
  /\ \A i \in 1..Len(pendingTransfers) :
       EmptyHash \notin Range(pendingTransfers[i].spentNoteHashes)
  /\ \A p \in Procs :
       (xfer[p].marked /\ xfer[p].selection # Null
          /\ xfer[p].selection.selectedNotes[2] = createPaddingSpendableNote)
       => xfer[p].spentNoteHashes = << xfer[p].selection.selectedNotes[1].txHash >>

Released(p) ==
  /\ xfer[p].pc \in {"resolved", "rejected"}
  /\ Range(xfer[p].spentNoteHashes)
       \cap getPendingNoteHashes(pendingTransfers, now) = {}

\* C33: every reservation ends. When every awaited call settles, a transfer
\* that reserved notes settles with its reservation released, and the
\* continuation that follows does not touch the pending list again; an entry
\* whose timeout has elapsed (its flow was abandoned) reserves nothing: a
\* hash of it is counted only when a younger entry holds it too.
C33_ReservationEnds ==
  /\ \A p \in Procs : xfer[p].marked ~> Released(p)
  /\ [][\A p \in Procs :
          xfer[p].pc \in {"resolved", "rejected"}
            => pendingTransfers' = pendingTransfers]_vars
  /\ [](\A i \in 1..Len(pendingTransfers) :
          now - pendingTransfers[i].timestamp >= PENDING_TRANSFER_TIMEOUT_MS =>
            \A h \in Range(pendingTransfers[i].spentNoteHashes) :
              h \in getPendingNoteHashes(pendingTransfers, now) =>
                \E j \in 1..Len(pendingTransfers) :
                  /\ pendingTransfers[j].timestamp > pendingTransfers[i].timestamp
                  /\ h \in Range(pendingTransfers[j].spentNoteHashes))

\* A transfer has settled and released its notes after the timeout of
\* another one, which is still waiting for a call to settle, has elapsed.
C33_Witness ==
  \E p \in Procs, q \in Procs :
    /\ p # q
    /\ xfer[p].marked /\ Released(p)
    /\ xfer[q].marked /\ xfer[q].pc \notin {"resolved", "rejected"}
    /\ now >= PENDING_TRANSFER_TIMEOUT_MS

\* -------------------------------------------------------- contract claim
\* C30: in a transaction that was built, every output note that is not
\* padding has the contract of every input note that is not padding; a
\* selection of two notes of different contracts is rejected instead.
C30_OutputsHaveInputContract ==
  (selDone /\ selTx # NoTx) =>
    \A i \in 1..Len(selTx.input_notes), o \in 1..Len(selTx.output_notes) :
      (selTx.input_notes[i].value > 0 /\ selTx.output_notes[o] # createPaddingNote)
        => selTx.output_notes[o].contract = selTx.input_notes[i].contract

\* -------------------------------------------------------- poller claims
\* C22: the owner's list is in non-increasing storedAt order after every
\* operation that changes it.
C22_ListNewestFirst ==
  \A i, j \in 1..Len(storedNotes) :
    i < j => storedNotes[i].storedAt >= storedNotes[j].storedAt

\* The store positions that hold record id.
StoredCopies(id) ==
  { i \in 1..Len(storedNotes) : storedNotes[i].txHash = EncryptedTxHash(id) }

Ingested(id) == StoredCopies(id) # {}

\* C34: every fetchNotes call of the poller, the timer-scheduled ones
\* included, starts with since equal to the watermark persisted at that
\* moment.
C34_SinceIsPersistedWatermark ==
  [][Len(passes') > Len(passes) =>
       passes'[Len(passes')].since = savedLastFetch]_vars

\* C12: however often the relay returns a record, the owner's store holds
\* at most one StoredNote with txHash encrypted:<id>.
C12_RecordIngestedOnce ==
  \A id \in 1..Len(relay) : Cardinality(StoredCopies(id)) <= 1

\* C13: whenever no pass is running, every decryptable record the relay
\* accepted is in the store, or is still at the relay and not older than
\* the persisted watermark.
C13_NoRecordSkipped ==
  InFlight = {} =>
    \A id \in 1..Len(relay) :
      relay[id].decryptable =>
        \/ Ingested(id)
        \/ ~relay[id].deleted /\ relay[id].storedAt >= savedLastFetch

\* C14: at most one fetchNotes call of the poller is in progress.
C14_OnePassAtATime == Len(passes) <= 1

\* A fetchNotes call returns in this step, with the given outcome.
Ending(outcome) == Len(passes') < Len(passes) /\ cycles'.last.outcome = outcome

\* C15: the persisted watermark changes only in the step that ends a pass
\* whose relay fetch succeeded; the step that ends a pass whose fetch failed
\* leaves it as it was.
C15_WatermarkOnlyAfterSuccessfulFetch ==
  [][ /\ savedLastFetch' # savedLastFetch => Ending("ingested")
      /\ Ending("fetch_failed") => savedLastFetch' = savedLastFetch ]_vars

\* A cycle set the watermark, the clock moved on, and a later cycle whose
\* fetch failed has ended with the watermark still at the earlier value.
C15_Witness ==
  /\ cycles.last.outcome = "fetch_failed"
  /\ savedLastFetch # NoFetch
  /\ savedLastFetch < Seconds(now)

\* C16: in every pass, each decryptable record the loop has passed was
\* decrypted, also behind a record that failed, and a pass that reached the
\* store has ingested each decryptable record of its batch; a record that
\* fails to decrypt is never stored, and no delete is sent for it.
C16_DecryptFailureIsolated ==
  /\ \A k \in InFlight :
       \A i \in 1..passes[k].idx :
         relay[passes[k].batch[i]].decryptable
           => passes[k].batch[i] \in Range(passes[k].decrypted)
  /\ \A id \in Range(cycles.last.batch) :
       relay[id].decryptable =>
         /\ id \in Range(cycles.last.decrypted)
         /\ cycles.last.outcome = "ingested" => Ingested(id)
  /\ \A id \in 1..Len(relay) :
       ~relay[id].decryptable =>
         ~Ingested(id) /\ ~relay[id].deleteSent /\ ~relay[id].deleted

\* A batch whose first record failed to decrypt and whose second record
\* was decrypted and stored.
C16_Witness ==
  /\ cycles.last.outcome = "ingested"
  /\ Len(cycles.last.batch) = 2
  /\ ~relay[cycles.last.batch[1]].decryptable
  /\ relay[cycles.last.batch[2]].decryptable
  /\ Ingested(cycles.last.batch[2])
  /\ cycles.last.decrypted = << cycles.last.batch[2] >>

\* C17: a delete request is sent only for a record that is already in the
\* owner's store.
C17_DeleteOnlyAfterIngest ==
  \A id \in 1..Len(relay) :
    (relay[id].deleteSent \/ relay[id].deleted) => Ingested(id)
====
